---------------------------- MODULE Spec2Model ----------------------------
(***************************************************************************)
(* A model of the catalog-and-review server (src/src/database.rs,          *)
(* src/src/main.rs, src/src/templates.rs).                                 *)
(*                                                                         *)
(* The relational store is three tables of rows.  Every function of        *)
(* database.rs is an operation run by a request task; a function that      *)
(* issues several SQL statements is one action per statement, so that the  *)
(* statements of concurrent requests interleave.  Text is a sequence of    *)
(* one-character strings, so that trimming and the \w+ pattern are         *)
(* computed rather than assumed.                                           *)
(*                                                                         *)
(* The migrations that create the tables are not among the source files:   *)
(* the schema (keys, defaults, cascades, the items_score view) is modelled *)
(* from the specification's description of the store.                      *)
(***************************************************************************)
EXTENDS Integers, Sequences, FiniteSets, TLC

VARIABLES
    users,      \* table users: rows [id, username, password_hash, is_admin, avatar_hue, has_avatar]
    items,      \* table items: rows [id, locator, title, description]
    reviews,    \* table reviews: rows [item_id, user_id, rating, date]
    next_id,    \* the id sequences of users and items: [users |-> n, items |-> n]
    now,        \* the store's clock, read by now()
    call,       \* call[p]: the database call request task p is running or ran last
    prev,       \* prev[p]: the call task p completed before the one in call[p]
    session,    \* session[s]: the Option<User> under the key "user" of client session s
    files,      \* the image files under static/images: records [dir, name, data]
    req         \* req[p]: the request handler task p is running or ran last

vars == <<users, items, reviews, next_id, now, call, prev, session, files, req>>
store == <<users, items, reviews, next_id>>
web == <<session, files, req>>

----------------------------------------------------------------------------
(* Bounds of the model.                                                    *)

\* The clock stops at MaxTime.
MaxTime == 1
\* The id sequences stop at MaxId.
MaxId == 3
\* The largest catalog the pagination specification starts from or grows to.
MaxItems == 13

----------------------------------------------------------------------------
(* Text.                                                                   *)

Empty == << >>
Blank == <<" ">>
bob == <<"b">>
eve == <<"e">>
zed == <<"z">>
a_b == <<"a", " ", "b">>
sp_b == <<" ", "b">>
m1 == <<"m", "1">>
m2 == <<"m", "2">>

\* char::is_whitespace, on the characters the model uses
IsWhitespace(c) == c \in {" ", "\t", "\n"}

\* s.trim().is_empty()
TrimIsEmpty(s) == \A i \in 1..Len(s) : IsWhitespace(s[i])

Letters ==
    <<"a", "b", "c", "d", "e", "f", "g", "h", "i", "j", "k", "l", "m", "n", "o", "p",
      "q", "r", "s", "t", "u", "v", "w", "x", "y", "z">>

\* the characters \w matches, among those the model uses
WordChars ==
    {Letters[i] : i \in 1..Len(Letters)} \cup {"P", "S", "C", "H", "0", "1", "2", "3", "9", "_"}

\* Regex::new(r"^\w+$").is_match(s)
IsWord(s) == Len(s) >= 1 /\ \A i \in 1..Len(s) : s[i] \in WordChars

----------------------------------------------------------------------------
(* Option values.                                                          *)

None == [some |-> FALSE]
Some(v) == [some |-> TRUE, v |-> v]
IsSome(o) == o.some
\* COALESCE($n, column)
Coalesce(o, old) == IF o.some THEN o.v ELSE old

----------------------------------------------------------------------------
(* The tables' lookups, as the SQL subselects compute them.                *)

NULL == 0

\* (SELECT id FROM users WHERE username=$1 LIMIT 1)
UserIdOf(username) ==
    IF \E u \in users : u.username = username
    THEN (CHOOSE u \in users : u.username = username).id
    ELSE NULL

\* (SELECT id FROM items WHERE locator=$1 LIMIT 1)
ItemIdOf(locator) ==
    IF \E i \in items : i.locator = locator
    THEN (CHOOSE i \in items : i.locator = locator).id
    ELSE NULL

\* the rows of reviews with the given keys
ReviewsOf(item_id, user_id) ==
    {r \in reviews : r.item_id = item_id /\ r.user_id = user_id}

----------------------------------------------------------------------------
(* The schema of the store: constraints, defaults and cascades.            *)

\* reviews without the uniqueness constraint on (item_id, user_id)
ReviewKeyTaken_Never(item_id, user_id) == FALSE

\* reviews: the uniqueness constraint on (item_id, user_id)
ReviewKeyTaken(item_id, user_id) == ReviewsOf(item_id, user_id) # {}

\* reviews: item_id and user_id are key columns and cannot be NULL
ReviewKeyNull(item_id, user_id) == item_id = NULL \/ user_id = NULL

\* reviews.date DEFAULT now()
DefaultDate == now

\* users: the uniqueness constraint on username, for the row with the given id
UsernameTaken(id, username) ==
    \E u \in users : u.id # id /\ u.username = username

\* items: the uniqueness constraint on locator, for the row with the given id
LocatorTaken(id, locator) ==
    \E i \in items : i.id # id /\ i.locator = locator

\* reviews.user_id REFERENCES users ON DELETE CASCADE
ReviewsWithoutUsers(ids) == {r \in reviews : r.user_id \notin ids}

\* no cascade: the reviews of a deleted item stay
ReviewsWithoutItems_NoCascade(ids) == reviews

\* reviews.item_id REFERENCES items ON DELETE CASCADE
ReviewsWithoutItems(ids) == {r \in reviews : r.item_id \notin ids}

----------------------------------------------------------------------------
(* Request tasks and the calls they run.                                   *)

Procs == {"p1", "p2"}

\* struct User, and the value of the field while no User was returned
NoUser == [username |-> Empty, is_admin |-> FALSE, avatar_hue |-> 0, has_avatar |-> FALSE]

\* struct Page, and Option<Page>: None, or the Page in the other fields
NoPage ==
    [some |-> FALSE, target |-> << >>, items |-> {}, current_page |-> 0,
     number_of_pages |-> 0, query |-> None]

\* std::ops::Range<usize>, start..end, and whether computing it took a
\* usize subtraction below zero (a panic in a debug build, a wrapped value
\* in a release build)
NoRange == [start |-> 0, end |-> 0, underflow |-> FALSE]

\* The locals a call keeps across its statements, and what it returned.
NoCall ==
    [op |-> "none", pc |-> "idle", username |-> Empty, locator |-> Empty,
     rating_in |-> 0, rating |-> 0, begun |-> 0, date |-> 0, password |-> Empty,
     password2 |-> Empty, is_htmx |-> FALSE, status |-> 0, message |-> "", result |-> "none", user |-> NoUser,
     page_number |-> 0, query |-> None, count |-> 0, number_of_pages |-> 0,
     page |-> NoPage, item |-> None, range |-> NoRange]

\* A task runs one call at a time.
Free(p) == call[p].pc \in {"idle", "done"}

Min2(a, b) == IF a <= b THEN a ELSE b
Max2(a, b) == IF a >= b THEN a ELSE b

\* rating.min(10), the lower end left open
ClampRating_UpperOnly(rating) == Min2(rating, 10)

\* rating.max(1).min(10), on an i16
ClampRating(rating) == Min2(Max2(rating, 1), 10)

----------------------------------------------------------------------------
(* rate_item: the INSERT, and on a unique violation the fallback UPDATE.   *)

\* rate_item without the fallback: a unique violation is an error like any other
rate_item_insert_NoFallback(p, username, item_locator, rating_in) ==
    LET rating == ClampRating(rating_in)
        item_id == ItemIdOf(item_locator)
        user_id == UserIdOf(username)
        c == [NoCall EXCEPT !.op = "rate_item", !.username = username,
                            !.locator = item_locator, !.rating_in = rating_in,
                            !.rating = rating, !.begun = now]
    IN  /\ Free(p)
        /\ IF ReviewKeyNull(item_id, user_id) \/ ReviewKeyTaken(item_id, user_id)
           THEN /\ call' = [call EXCEPT ![p] =
                                [c EXCEPT !.pc = "done", !.result = "InternalError"]]
                /\ UNCHANGED reviews
           ELSE /\ reviews' = reviews \cup
                        {[item_id |-> item_id, user_id |-> user_id,
                          rating |-> rating, date |-> DefaultDate]}
                /\ call' = [call EXCEPT ![p] =
                                [c EXCEPT !.pc = "done", !.result = "Ok",
                                          !.date = DefaultDate]]
        /\ UNCHANGED <<users, items, next_id, now>>

rate_item_insert(p, username, item_locator, rating_in) ==
    LET rating == ClampRating(rating_in)
        item_id == ItemIdOf(item_locator)
        user_id == UserIdOf(username)
        c == [NoCall EXCEPT !.op = "rate_item", !.username = username,
                            !.locator = item_locator, !.rating_in = rating_in,
                            !.rating = rating, !.begun = now]
    IN  /\ Free(p)
        /\ IF ReviewKeyNull(item_id, user_id)
           THEN \* a database error that is no unique violation
                /\ call' = [call EXCEPT ![p] =
                                [c EXCEPT !.pc = "done", !.result = "InternalError"]]
                /\ UNCHANGED reviews
           ELSE IF ReviewKeyTaken(item_id, user_id)
           THEN \* e.is_unique_violation(): the UPDATE is still to run
                /\ call' = [call EXCEPT ![p] = [c EXCEPT !.pc = "update"]]
                /\ UNCHANGED reviews
           ELSE /\ reviews' = reviews \cup
                        {[item_id |-> item_id, user_id |-> user_id,
                          rating |-> rating, date |-> DefaultDate]}
                /\ call' = [call EXCEPT ![p] =
                                [c EXCEPT !.pc = "done", !.result = "Ok",
                                          !.date = DefaultDate]]
        /\ UNCHANGED <<users, items, next_id, now>>

\* the fallback UPDATE with SET date=now() only
rate_item_update_KeepsRating(p) ==
    LET c == call[p]
        item_id == ItemIdOf(c.locator)
        user_id == UserIdOf(c.username)
    IN  /\ c.op = "rate_item"
        /\ c.pc = "update"
        /\ reviews' = {IF r.item_id = item_id /\ r.user_id = user_id
                       THEN [r EXCEPT !.date = now]
                       ELSE r : r \in reviews}
        /\ call' = [call EXCEPT ![p] =
                        [c EXCEPT !.pc = "done", !.result = "Ok", !.date = now]]
        /\ UNCHANGED <<users, items, next_id, now>>

\* the UPDATE sets the rating and leaves the date
rate_item_update_KeepsDate(p) ==
    LET c == call[p]
        item_id == ItemIdOf(c.locator)
        user_id == UserIdOf(c.username)
    IN  /\ c.op = "rate_item"
        /\ c.pc = "update"
        /\ reviews' = {IF r.item_id = item_id /\ r.user_id = user_id
                       THEN [r EXCEPT !.rating = c.rating]
                       ELSE r : r \in reviews}
        /\ call' = [call EXCEPT ![p] =
                        [c EXCEPT !.pc = "done", !.result = "Ok", !.date = now]]
        /\ UNCHANGED <<users, items, next_id, now>>

rate_item_update(p) ==
    LET c == call[p]
        item_id == ItemIdOf(c.locator)
        user_id == UserIdOf(c.username)
    IN  /\ c.op = "rate_item"
        /\ c.pc = "update"
        /\ reviews' = {IF r.item_id = item_id /\ r.user_id = user_id
                       THEN [r EXCEPT !.rating = c.rating, !.date = now]
                       ELSE r : r \in reviews}
        /\ call' = [call EXCEPT ![p] =
                        [c EXCEPT !.pc = "done", !.result = "Ok", !.date = now]]
        /\ UNCHANGED <<users, items, next_id, now>>

----------------------------------------------------------------------------
(* remove_review                                                           *)

\* the DELETE without the user_id condition
remove_review_AnyUser(p, locator, username) ==
    LET item_id == ItemIdOf(locator)
    IN  /\ Free(p)
        /\ reviews' = {r \in reviews : r.item_id # item_id}
        /\ call' = [call EXCEPT ![p] =
                        [NoCall EXCEPT !.op = "remove_review", !.pc = "done",
                                       !.locator = locator, !.username = username,
                                       !.result = "Ok"]]
        /\ UNCHANGED <<users, items, next_id, now>>

remove_review(p, locator, username) ==
    LET item_id == ItemIdOf(locator)
        user_id == UserIdOf(username)
    IN  /\ Free(p)
        /\ reviews' = {r \in reviews : ~(r.item_id = item_id /\ r.user_id = user_id)}
        /\ call' = [call EXCEPT ![p] =
                        [NoCall EXCEPT !.op = "remove_review", !.pc = "done",
                                       !.locator = locator, !.username = username,
                                       !.result = "Ok"]]
        /\ UNCHANGED <<users, items, next_id, now>>

----------------------------------------------------------------------------
(* The store's clock.                                                      *)

Tick ==
    /\ now < MaxTime
    /\ now' = now + 1
    /\ UNCHANGED <<users, items, reviews, next_id, call>>

----------------------------------------------------------------------------
(* Passwords: the strength score of the passwords crate and Argon2.        *)

x_pw == <<"x">>
Str0ng == <<"S", "t", "r", "0", "n", "g", "!", "P", "a", "s", "s", "1", "2", "3">>
C0rrect == <<"C", "0", "r", "r", "e", "c", "t", "-", "H", "o", "r", "s", "e", "9">>
\* two passwords that stand for one the scorer rates 79 and one it rates 80
Weak79 == <<"W", "e", "a", "k", "7", "9">>
Fair80 == <<"F", "a", "i", "r", "8", "0">>

\* scorer::score(&analyzer::analyze(password)), on the passwords the model uses
PasswordScore(password) ==
    IF password \in {Str0ng, C0rrect} THEN 90
    ELSE IF password = Fair80 THEN 80
    ELSE IF password = Weak79 THEN 79
    ELSE IF TrimIsEmpty(password) THEN 0
    ELSE 10 * Len(password)

Salts == {"s1", "s2"}

\* Argon2::default().hash_password(password, salt)
Argon2Hash(password, salt) == <<"argon2id", salt, password>>

\* Argon2::default().verify_password(password, &hash)
Argon2Verify(password, hash) == Argon2Hash(password, hash[2]) = hash

----------------------------------------------------------------------------
(* login_user                                                              *)

\* login_user where a missing row is a database error like any other
LoginResult_RowNotFoundInternal(username, password) ==
    IF TrimIsEmpty(username) \/ TrimIsEmpty(password)
    THEN [result |-> "EmptyFields", user |-> NoUser]
    ELSE IF ~ \E u \in users : u.username = username
    THEN [result |-> "InternalError", user |-> NoUser]
    ELSE LET row == CHOOSE u \in users : u.username = username
         IN  IF ~ Argon2Verify(password, row.password_hash)
             THEN [result |-> "IncorrectCredentials", user |-> NoUser]
             ELSE [result |-> "Ok",
                   user |-> [username |-> username, is_admin |-> row.is_admin,
                             avatar_hue |-> row.avatar_hue,
                             has_avatar |-> row.has_avatar]]

\* What login_user returns: the error kind or "Ok", and the User.
LoginResult(username, password) ==
    IF TrimIsEmpty(username) \/ TrimIsEmpty(password)
    THEN [result |-> "EmptyFields", user |-> NoUser]
    ELSE IF ~ \E u \in users : u.username = username
    THEN \* RowNotFound
         [result |-> "IncorrectCredentials", user |-> NoUser]
    ELSE LET row == CHOOSE u \in users : u.username = username
         IN  IF ~ Argon2Verify(password, row.password_hash)
             THEN [result |-> "IncorrectCredentials", user |-> NoUser]
             ELSE [result |-> "Ok",
                   user |-> [username |-> username, is_admin |-> row.is_admin,
                             avatar_hue |-> row.avatar_hue,
                             has_avatar |-> row.has_avatar]]

login_user(p, username, password) ==
    LET r == LoginResult(username, password)
    IN  /\ Free(p)
        /\ call' = [call EXCEPT ![p] =
                        [NoCall EXCEPT !.op = "login_user", !.pc = "done",
                                       !.username = username, !.password = password,
                                       !.result = r.result, !.user = r.user]]
        /\ UNCHANGED <<users, items, reviews, next_id, now>>

----------------------------------------------------------------------------
(* register_user: the checks and the INSERT, then the implicit login.      *)

Hues == {0, 180}

\* users: the column defaults of a new row
NewUserRow(id, username, password_hash, avatar_hue) ==
    [id |-> id, username |-> username, password_hash |-> password_hash,
     is_admin |-> FALSE, avatar_hue |-> avatar_hue, has_avatar |-> FALSE]

\* register_user with the password checks ahead of the username pattern
RegisterCheck_PasswordsFirst(username, password1, password2) ==
    IF TrimIsEmpty(username) \/ TrimIsEmpty(password1) \/ TrimIsEmpty(password2)
    THEN "EmptyFields"
    ELSE IF password1 # password2 THEN "PasswordsDiffer"
    ELSE IF PasswordScore(password1) < 80 THEN "WeakPassword"
    ELSE IF ~ IsWord(username) THEN "IllegalUsername"
    ELSE "Ok"

\* The first check of register_user that fails, or "Ok".
RegisterCheck(username, password1, password2) ==
    IF TrimIsEmpty(username) \/ TrimIsEmpty(password1) \/ TrimIsEmpty(password2)
    THEN "EmptyFields"
    ELSE IF ~ IsWord(username) THEN "IllegalUsername"
    ELSE IF password1 # password2 THEN "PasswordsDiffer"
    ELSE IF PasswordScore(password1) < 80 THEN "WeakPassword"
    ELSE "Ok"

\* register_user without the is_unique_violation() arm
register_user_insert_NoDuplicateKind(p, username, password1, password2) ==
    LET check == RegisterCheck(username, password1, password2)
        c == [NoCall EXCEPT !.op = "register_user", !.username = username,
                            !.password = password1, !.password2 = password2]
    IN  /\ Free(p)
        /\ IF check # "Ok"
           THEN /\ call' = [call EXCEPT ![p] =
                                [c EXCEPT !.pc = "done", !.result = check]]
                /\ UNCHANGED <<users, next_id>>
           ELSE IF UsernameTaken(NULL, username)
           THEN \* e.is_unique_violation()
                /\ call' = [call EXCEPT ![p] =
                                [c EXCEPT !.pc = "done", !.result = "InternalError"]]
                /\ UNCHANGED <<users, next_id>>
           ELSE /\ next_id.users <= MaxId
                /\ \E salt \in Salts, hue \in Hues :
                        users' = users \cup
                            {NewUserRow(next_id.users, username,
                                        Argon2Hash(password1, salt), hue)}
                /\ next_id' = [next_id EXCEPT !.users = @ + 1]
                /\ call' = [call EXCEPT ![p] = [c EXCEPT !.pc = "login"]]
        /\ UNCHANGED <<items, reviews, now>>

register_user_insert(p, username, password1, password2) ==
    LET check == RegisterCheck(username, password1, password2)
        c == [NoCall EXCEPT !.op = "register_user", !.username = username,
                            !.password = password1, !.password2 = password2]
    IN  /\ Free(p)
        /\ IF check # "Ok"
           THEN /\ call' = [call EXCEPT ![p] =
                                [c EXCEPT !.pc = "done", !.result = check]]
                /\ UNCHANGED <<users, next_id>>
           ELSE IF UsernameTaken(NULL, username)
           THEN \* e.is_unique_violation()
                /\ call' = [call EXCEPT ![p] =
                                [c EXCEPT !.pc = "done", !.result = "DuplicateUser"]]
                /\ UNCHANGED <<users, next_id>>
           ELSE /\ next_id.users <= MaxId
                /\ \E salt \in Salts, hue \in Hues :
                        users' = users \cup
                            {NewUserRow(next_id.users, username,
                                        Argon2Hash(password1, salt), hue)}
                /\ next_id' = [next_id EXCEPT !.users = @ + 1]
                /\ call' = [call EXCEPT ![p] = [c EXCEPT !.pc = "login"]]
        /\ UNCHANGED <<items, reviews, now>>

\* register_user that builds the User itself instead of calling login_user
register_user_login_Unchecked(p) ==
    LET c == call[p]
    IN  /\ c.op = "register_user"
        /\ c.pc = "login"
        /\ call' = [call EXCEPT ![p] =
                        [c EXCEPT !.pc = "done", !.result = "Ok",
                                  !.user = [NoUser EXCEPT !.username = c.username]]]
        /\ UNCHANGED <<users, items, reviews, next_id, now>>

register_user_login(p) ==
    LET c == call[p]
        r == LoginResult(c.username, c.password)
    IN  /\ c.op = "register_user"
        /\ c.pc = "login"
        /\ call' = [call EXCEPT ![p] =
                        [c EXCEPT !.pc = "done", !.result = r.result, !.user = r.user]]
        /\ UNCHANGED <<users, items, reviews, next_id, now>>

----------------------------------------------------------------------------
(* add_item, remove_item, edit_item                                        *)

Done(op, result) == [NoCall EXCEPT !.op = op, !.pc = "done", !.result = result]

\* add_item without the is_unique_violation() arm
add_item_NoDuplicateKind(p, locator, title, description) ==
    /\ Free(p)
    /\ IF TrimIsEmpty(locator) \/ TrimIsEmpty(title) \/ TrimIsEmpty(description)
       THEN /\ call' = [call EXCEPT ![p] = Done("add_item", "EmptyFields")]
            /\ UNCHANGED <<items, next_id>>
       ELSE IF ~ IsWord(locator)
       THEN /\ call' = [call EXCEPT ![p] = Done("add_item", "IllegalLocator")]
            /\ UNCHANGED <<items, next_id>>
       ELSE IF LocatorTaken(NULL, locator)
       THEN \* e.is_unique_violation()
            /\ call' = [call EXCEPT ![p] = Done("add_item", "InternalError")]
            /\ UNCHANGED <<items, next_id>>
       ELSE /\ next_id.items <= MaxItems + 1
            /\ items' = items \cup
                    {[id |-> next_id.items, locator |-> locator, title |-> title,
                      description |-> description]}
            /\ next_id' = [next_id EXCEPT !.items = @ + 1]
            /\ call' = [call EXCEPT ![p] = Done("add_item", "Ok")]
    /\ UNCHANGED <<users, reviews, now>>

\* add_item with the INSERT issued before the fields are validated
add_item_InsertsFirst(p, locator, title, description) ==
    /\ Free(p)
    /\ IF LocatorTaken(NULL, locator)
       THEN /\ call' = [call EXCEPT ![p] = Done("add_item", "DuplicateItem")]
            /\ UNCHANGED <<items, next_id>>
       ELSE /\ next_id.items <= MaxItems + 1
            /\ items' = items \cup
                    {[id |-> next_id.items, locator |-> locator, title |-> title,
                      description |-> description]}
            /\ next_id' = [next_id EXCEPT !.items = @ + 1]
            /\ call' = [call EXCEPT ![p] =
                    IF TrimIsEmpty(locator) \/ TrimIsEmpty(title) \/ TrimIsEmpty(description)
                    THEN Done("add_item", "EmptyFields")
                    ELSE IF ~ IsWord(locator)
                    THEN Done("add_item", "IllegalLocator")
                    ELSE Done("add_item", "Ok")]
    /\ UNCHANGED <<users, reviews, now>>

add_item(p, locator, title, description) ==
    /\ Free(p)
    /\ IF TrimIsEmpty(locator) \/ TrimIsEmpty(title) \/ TrimIsEmpty(description)
       THEN /\ call' = [call EXCEPT ![p] = Done("add_item", "EmptyFields")]
            /\ UNCHANGED <<items, next_id>>
       ELSE IF ~ IsWord(locator)
       THEN /\ call' = [call EXCEPT ![p] = Done("add_item", "IllegalLocator")]
            /\ UNCHANGED <<items, next_id>>
       ELSE IF LocatorTaken(NULL, locator)
       THEN \* e.is_unique_violation()
            /\ call' = [call EXCEPT ![p] = Done("add_item", "DuplicateItem")]
            /\ UNCHANGED <<items, next_id>>
       ELSE /\ next_id.items <= MaxItems + 1
            /\ items' = items \cup
                    {[id |-> next_id.items, locator |-> locator, title |-> title,
                      description |-> description]}
            /\ next_id' = [next_id EXCEPT !.items = @ + 1]
            /\ call' = [call EXCEPT ![p] = Done("add_item", "Ok")]
    /\ UNCHANGED <<users, reviews, now>>

remove_item(p, locator) ==
    LET gone == {i \in items : i.locator = locator}
    IN  /\ Free(p)
        /\ items' = items \ gone
        /\ reviews' = ReviewsWithoutItems({i.id : i \in gone})
        /\ call' = [call EXCEPT ![p] = Done("remove_item", "Ok")]
        /\ UNCHANGED <<users, next_id, now>>

\* edit_item that looks for the new locator among the items before the UPDATE
edit_item_ChecksFirst(p, locator, new_locator, new_title, new_description) ==
    LET IsBlankSome(o) == o.some /\ TrimIsEmpty(o.v)
        Merged(i) == [i EXCEPT !.locator = Coalesce(new_locator, @),
                               !.title = Coalesce(new_title, @),
                               !.description = Coalesce(new_description, @)]
        hit == {i \in items : i.locator = locator}
    IN  /\ Free(p)
        /\ IF IsBlankSome(new_locator) \/ IsBlankSome(new_title)
                \/ IsBlankSome(new_description)
           THEN /\ call' = [call EXCEPT ![p] = Done("edit_item", "EmptyFields")]
                /\ UNCHANGED items
           ELSE IF new_locator.some /\ ~ IsWord(new_locator.v)
           THEN /\ call' = [call EXCEPT ![p] = Done("edit_item", "IllegalLocator")]
                /\ UNCHANGED items
           ELSE IF new_locator.some /\ \E i \in items : i.locator = new_locator.v
           THEN \* e.is_unique_violation()
                /\ call' = [call EXCEPT ![p] = Done("edit_item", "DuplicateItem")]
                /\ UNCHANGED items
           ELSE /\ items' = (items \ hit) \cup {Merged(i) : i \in hit}
                /\ call' = [call EXCEPT ![p] = Done("edit_item", "Ok")]
        /\ UNCHANGED <<users, reviews, next_id, now>>

\* edit_item with SET title = $2, without the COALESCE
edit_item_OverwritesTitle(p, locator, new_locator, new_title, new_description) ==
    LET IsBlankSome(o) == o.some /\ TrimIsEmpty(o.v)
        Merged(i) == [i EXCEPT !.locator = Coalesce(new_locator, @),
                               !.title = IF new_title.some THEN new_title.v ELSE Empty,
                               !.description = Coalesce(new_description, @)]
        hit == {i \in items : i.locator = locator}
    IN  /\ Free(p)
        /\ IF IsBlankSome(new_locator) \/ IsBlankSome(new_title)
                \/ IsBlankSome(new_description)
           THEN /\ call' = [call EXCEPT ![p] = Done("edit_item", "EmptyFields")]
                /\ UNCHANGED items
           ELSE IF new_locator.some /\ ~ IsWord(new_locator.v)
           THEN /\ call' = [call EXCEPT ![p] = Done("edit_item", "IllegalLocator")]
                /\ UNCHANGED items
           ELSE IF \E i \in hit : LocatorTaken(i.id, Merged(i).locator)
           THEN \* e.is_unique_violation()
                /\ call' = [call EXCEPT ![p] = Done("edit_item", "DuplicateItem")]
                /\ UNCHANGED items
           ELSE /\ items' = (items \ hit) \cup {Merged(i) : i \in hit}
                /\ call' = [call EXCEPT ![p] = Done("edit_item", "Ok")]
        /\ UNCHANGED <<users, reviews, next_id, now>>

edit_item(p, locator, new_locator, new_title, new_description) ==
    LET IsBlankSome(o) == o.some /\ TrimIsEmpty(o.v)
        Merged(i) == [i EXCEPT !.locator = Coalesce(new_locator, @),
                               !.title = Coalesce(new_title, @),
                               !.description = Coalesce(new_description, @)]
        hit == {i \in items : i.locator = locator}
    IN  /\ Free(p)
        /\ IF IsBlankSome(new_locator) \/ IsBlankSome(new_title)
                \/ IsBlankSome(new_description)
           THEN /\ call' = [call EXCEPT ![p] = Done("edit_item", "EmptyFields")]
                /\ UNCHANGED items
           ELSE IF new_locator.some /\ ~ IsWord(new_locator.v)
           THEN /\ call' = [call EXCEPT ![p] = Done("edit_item", "IllegalLocator")]
                /\ UNCHANGED items
           ELSE IF \E i \in hit : LocatorTaken(i.id, Merged(i).locator)
           THEN \* e.is_unique_violation()
                /\ call' = [call EXCEPT ![p] = Done("edit_item", "DuplicateItem")]
                /\ UNCHANGED items
           ELSE /\ items' = (items \ hit) \cup {Merged(i) : i \in hit}
                /\ call' = [call EXCEPT ![p] = Done("edit_item", "Ok")]
        /\ UNCHANGED <<users, reviews, next_id, now>>

----------------------------------------------------------------------------
(* remove_user, edit_user                                                  *)

remove_user(p, username) ==
    LET gone == {u \in users : u.username = username}
    IN  /\ Free(p)
        /\ users' = users \ gone
        /\ reviews' = ReviewsWithoutUsers({u.id : u \in gone})
        /\ call' = [call EXCEPT ![p] = Done("remove_user", "Ok")]
        /\ UNCHANGED <<items, next_id, now>>

\* The password part of edit_user: the error kind, "keep", or "hash".
EditPasswordCheck(new_password1, new_password2) ==
    IF new_password1.some /\ new_password2.some
    THEN IF ~ TrimIsEmpty(new_password1.v) \/ ~ TrimIsEmpty(new_password2.v)
         THEN IF new_password1.v # new_password2.v THEN "PasswordsDiffer"
              ELSE IF PasswordScore(new_password1.v) < 80 THEN "WeakPassword"
              ELSE "hash"
         ELSE "keep"
    ELSE "keep"

\* the rename is a DELETE of the row and an INSERT of a new one
edit_user_NewRow(p, username, new_username, has_avatar, new_password1, new_password2) ==
    LET hit == {u \in users : u.username = username}
    IN  /\ Free(p)
        /\ IF \E u \in hit : UsernameTaken(u.id, Coalesce(new_username, u.username))
           THEN /\ call' = [call EXCEPT ![p] = Done("edit_user", "DuplicateItem")]
                /\ UNCHANGED <<users, reviews>>
           ELSE /\ users' = (users \ hit) \cup
                        {[u EXCEPT !.username = Coalesce(new_username, @)] : u \in hit}
                /\ reviews' = ReviewsWithoutUsers({u.id : u \in hit})
                /\ call' = [call EXCEPT ![p] = Done("edit_user", "Ok")]
        /\ UNCHANGED <<items, next_id, now>>

edit_user(p, username, new_username, has_avatar, new_password1, new_password2) ==
    LET pw == EditPasswordCheck(new_password1, new_password2)
        hit == {u \in users : u.username = username}
        Merged(u, password_hash) ==
            [u EXCEPT !.username = Coalesce(new_username, @),
                      !.has_avatar = Coalesce(has_avatar, @),
                      !.password_hash = Coalesce(password_hash, @)]
    IN  /\ Free(p)
        /\ IF new_username.some /\ TrimIsEmpty(new_username.v)
           THEN /\ call' = [call EXCEPT ![p] = Done("edit_user", "EmptyFields")]
                /\ UNCHANGED users
           ELSE IF new_username.some /\ ~ IsWord(new_username.v)
           THEN /\ call' = [call EXCEPT ![p] = Done("edit_user", "IllegalUsername")]
                /\ UNCHANGED users
           ELSE IF pw \in {"PasswordsDiffer", "WeakPassword"}
           THEN /\ call' = [call EXCEPT ![p] = Done("edit_user", pw)]
                /\ UNCHANGED users
           ELSE IF \E u \in hit : UsernameTaken(u.id, Merged(u, None).username)
           THEN \* e.is_unique_violation() => DatabaseError::DuplicateItem
                /\ call' = [call EXCEPT ![p] = Done("edit_user", "DuplicateItem")]
                /\ UNCHANGED users
           ELSE /\ \E salt \in Salts :
                    LET password_hash ==
                            IF pw = "hash"
                            THEN Some(Argon2Hash(new_password1.v, salt))
                            ELSE None
                    IN  users' = (users \ hit) \cup {Merged(u, password_hash) : u \in hit}
                /\ call' = [call EXCEPT ![p] = Done("edit_user", "Ok")]
        /\ UNCHANGED <<items, reviews, next_id, now>>

----------------------------------------------------------------------------
(* Initial stores.                                                         *)

t1 == <<"t", "1">>
d1 == <<"d", "1">>

UserRow(id, username, is_admin) ==
    [id |-> id, username |-> username, password_hash |-> Argon2Hash(Str0ng, "s1"),
     is_admin |-> is_admin, avatar_hue |-> 0, has_avatar |-> FALSE]

ItemRow(id, locator) ==
    [id |-> id, locator |-> locator, title |-> t1, description |-> d1]

Idle == [p \in Procs |-> NoCall]

\* the client sessions, and the sessions of clients that never logged in
Sessions == {"s1", "s2"}
NoSessions == [s \in Sessions |-> None]

\* an uploaded multipart field with a content type: no such field, an image,
\* or a file of another type
NoImage == [some |-> FALSE, v |-> "", is_image |-> TRUE]
Image(data) == [some |-> TRUE, v |-> data, is_image |-> TRUE]
NotImage == [some |-> TRUE, v |-> "txt", is_image |-> FALSE]

\* The locals a handler keeps across its awaits, and what it answered.
NoReq ==
    [op |-> "none", pc |-> "idle", s |-> "s1", user |-> None, is_htmx |-> FALSE,
     path |-> Empty, new_name |-> None, title |-> None, description |-> None,
     image |-> NoImage, clear_avatar |-> FALSE, password1 |-> None,
     password2 |-> None, page_user |-> None, status |-> 0, message |-> ""]
NoRequests == [p \in Procs |-> NoReq]

\* Two registered users and one item, nothing rated yet.
InitRated ==
    /\ users = {UserRow(1, bob, FALSE), UserRow(2, eve, FALSE)}
    /\ items = {ItemRow(1, m1)}
    /\ reviews = {}
    /\ next_id = [users |-> 3, items |-> 2]
    /\ now = 0
    /\ call = Idle
    /\ prev = Idle
    /\ session = NoSessions
    /\ files = {}
    /\ req = NoRequests

\* The ratings a client may post: an i16, below, inside and above [1, 10].
RatingInputs == {-32768, 0, 7, 11, 32767}

----------------------------------------------------------------------------
(* SpecRace: two tasks rate concurrently; nothing else touches reviews.    *)

NextRace ==
    \/ \E p \in Procs, u \in {bob, eve}, r \in RatingInputs :
            rate_item_insert(p, u, m1, r) /\ UNCHANGED <<prev, web>>
    \/ \E p \in Procs : rate_item_update(p) /\ UNCHANGED <<prev, web>>
    \/ Tick /\ UNCHANGED <<prev, web>>

SpecRace == InitRated /\ [][NextRace]_vars

----------------------------------------------------------------------------
(* SpecSeqRate: one task rates and un-rates, one call after the other.     *)

Starts(p) == prev' = [prev EXCEPT ![p] = call[p]]

NextSeqRate ==
    \/ \E u \in {bob, zed}, l \in {m1, m2}, r \in RatingInputs :
            rate_item_insert("p1", u, l, r) /\ Starts("p1") /\ UNCHANGED web
    \/ rate_item_update("p1") /\ UNCHANGED <<prev, web>>
    \/ \E u \in {bob, zed}, l \in {m1, m2} :
            remove_review("p1", l, u) /\ Starts("p1") /\ UNCHANGED web
    \/ Tick /\ UNCHANGED <<prev, web>>

SpecSeqRate == InitRated /\ [][NextSeqRate]_vars

----------------------------------------------------------------------------
(* SpecRate: two tasks rate, un-rate, rename and remove, interleaved.  The  *)
(* clock stands still here; SpecRace and SpecSeqRate let it run.           *)

NextRate ==
    \/ \E p \in Procs, u \in {bob, eve}, l \in {m1}, r \in {0, 7, 11} :
            rate_item_insert(p, u, l, r) /\ UNCHANGED <<prev, web>>
    \/ \E p \in Procs : rate_item_update(p) /\ UNCHANGED <<prev, web>>
    \/ \E p \in Procs, u \in {bob, eve}, l \in {m1, m2} :
            remove_review(p, l, u) /\ UNCHANGED <<prev, web>>
    \/ \E p \in Procs, u \in {bob, zed}, v \in {bob, eve, zed} :
            edit_user(p, u, Some(v), None, None, None) /\ UNCHANGED <<prev, web>>
    \/ \E p \in Procs, l \in {m1, m2}, k \in {m1, m2} :
            edit_item(p, l, Some(k), None, None) /\ UNCHANGED <<prev, web>>
    \/ \E p \in Procs, u \in {bob, eve} : remove_user(p, u) /\ UNCHANGED <<prev, web>>
    \/ \E p \in Procs : remove_item(p, m1) /\ UNCHANGED <<prev, web>>

SpecRate == InitRated /\ [][NextRate]_vars

----------------------------------------------------------------------------
(* Trigram similarity, the % operator and SIMILARITY() of the queries.     *)

cat == <<"c", "a", "t">>
cab == <<"c", "a", "b">>
dog == <<"d", "o", "g">>

\* the trigrams of a one-word text: two blanks before it, one after
Trigrams(text) ==
    LET padded == <<" ", " ">> \o text \o <<" ">>
    IN  {SubSeq(padded, i, i + 2) : i \in 1..(Len(text) + 1)}

\* SIMILARITY(text, query), in thousandths
Similarity(text, query) ==
    LET A == Trigrams(text)
        B == Trigrams(query)
    IN  (1000 * Cardinality(A \cap B)) \div Cardinality(A \cup B)

\* text % query: the similarity is above the threshold, 0.3
Matches(text, query) ==
    LET A == Trigrams(text)
        B == Trigrams(query)
    IN  10 * Cardinality(A \cap B) > 3 * Cardinality(A \cup B)

----------------------------------------------------------------------------
(* The view items_score: every item with its rating aggregates.            *)

RECURSIVE SumRatings(_)
SumRatings(rs) ==
    IF rs = {} THEN 0
    ELSE LET r == CHOOSE r \in rs : TRUE
         IN  r.rating + SumRatings(rs \ {r})

ReviewCountOf(item_id) == Cardinality({r \in reviews : r.item_id = item_id})

\* the mean rating, in hundredths; 0 for an item nobody rated
ScoreOf(item_id) ==
    LET rs == {r \in reviews : r.item_id = item_id}
    IN  IF rs = {} THEN 0 ELSE (100 * SumRatings(rs)) \div Cardinality(rs)

\* DENSE_RANK() OVER (ORDER BY value DESC)
DenseRank(value, values) == 1 + Cardinality({v \in values : v > value})

ItemsScore ==
    LET scores == {ScoreOf(i.id) : i \in items}
        counts == {ReviewCountOf(i.id) : i \in items}
    IN  {[id |-> i.id, locator |-> i.locator, title |-> i.title,
          description |-> i.description, score |-> ScoreOf(i.id),
          review_count |-> ReviewCountOf(i.id),
          rank |-> DenseRank(ScoreOf(i.id), scores),
          popularity |-> DenseRank(ReviewCountOf(i.id), counts)] : i \in items}

\* struct Item, decoded from a row of items_score
Item(row) ==
    [locator |-> row.locator, title |-> row.title, description |-> row.description,
     score |-> row.score, review_count |-> row.review_count, rank |-> row.rank,
     popularity |-> row.popularity]

\* struct User, decoded from a row of users
User(row) ==
    [username |-> row.username, is_admin |-> row.is_admin,
     avatar_hue |-> row.avatar_hue, has_avatar |-> row.has_avatar]

----------------------------------------------------------------------------
(* ORDER BY ... DESC LIMIT n OFFSET m.  Rows with equal sort keys come in   *)
(* an order the store is free to choose, query by query; a result is the   *)
(* set of rows in the window of one such order.                            *)

PageSize == 12
RatingPageSize == 3

KeyLess(a, b) == a[1] < b[1] \/ (a[1] = b[1] /\ a[2] < b[2])

\* the subsets of S with k elements
RECURSIVE KSubsets(_, _)
KSubsets(S, k) ==
    IF k = 0 THEN {{}}
    ELSE IF k = Cardinality(S) THEN {S}
    ELSE LET x == CHOOSE x \in S : TRUE
         IN  KSubsets(S \ {x}, k) \cup {T \cup {x} : T \in KSubsets(S \ {x}, k - 1)}

\* keyed: rows [key |-> <<k1, k2>>, row |-> _]; the windows of `limit` rows after
\* `offset` rows, over the orders that sort keyed by key, descending
RECURSIVE Window(_, _, _)
Window(keyed, offset, limit) ==
    IF keyed = {} \/ limit = 0 THEN {{}}
    ELSE LET top == CHOOSE e \in keyed : \A f \in keyed : ~ KeyLess(e.key, f.key)
             ties == {e \in keyed : e.key = top.key}
             rest == keyed \ ties
             n == Cardinality(ties)
         IN  IF offset >= n THEN Window(rest, offset - n, limit)
             ELSE LET take == Min2(n - offset, limit)
                  IN  {T \cup R : T \in KSubsets(ties, take),
                                  R \in Window(rest, 0, limit - take)}

\* a page too many whenever the count is a multiple of the page size
DivCeil_PlusOne(n, d) == n \div d + 1

\* usize::div_ceil
DivCeil(n, d) == (n + d - 1) \div d

----------------------------------------------------------------------------
(* get_items, get_users, get_item_ratings, get_user_ratings: the COUNT     *)
(* query and the range check, then the page query.                         *)

\* the range check without its lower end
CountStep_NoLowerEnd(p, args, page_number, count, size) ==
    LET number_of_pages == (count + size - 1) \div size
        c == [args EXCEPT !.page_number = Coalesce(page_number, 0), !.count = count,
                          !.number_of_pages = number_of_pages]
    IN  /\ Free(p)
        /\ IF c.page_number < number_of_pages
           THEN call' = [call EXCEPT ![p] = [c EXCEPT !.pc = "page"]]
           ELSE call' = [call EXCEPT ![p] = [c EXCEPT !.pc = "done", !.result = "Ok"]]
        /\ UNCHANGED <<users, items, reviews, next_id, now>>

\* page_number.unwrap_or(0), the count, and (0..number_of_pages).contains(&page_number)
CountStep(p, args, page_number, count, size) ==
    LET \* `as usize` and `as i32` keep a count of rows below 2^31 * size as it is
        number_of_pages == DivCeil(count, size)
        c == [args EXCEPT !.page_number = Coalesce(page_number, 0), !.count = count,
                          !.number_of_pages = number_of_pages]
    IN  /\ Free(p)
        /\ IF 0 <= c.page_number /\ c.page_number < number_of_pages
           THEN call' = [call EXCEPT ![p] = [c EXCEPT !.pc = "page"]]
           ELSE call' = [call EXCEPT ![p] = [c EXCEPT !.pc = "done", !.result = "Ok"]]
        /\ UNCHANGED <<users, items, reviews, next_id, now>>

\* the page query, and Ok(Some(Page { .. }))
PageStep(p, op, keyed, size, target) ==
    LET c == call[p]
    IN  /\ c.op = op
        /\ c.pc = "page"
        /\ \E W \in Window(keyed, size * c.page_number, size) :
                call' = [call EXCEPT ![p] =
                    [c EXCEPT !.pc = "done", !.result = "Ok",
                              !.page = [some |-> TRUE, target |-> target,
                                        items |-> {e.row : e \in W},
                                        current_page |-> c.page_number,
                                        number_of_pages |-> c.number_of_pages,
                                        query |-> c.query]]]
        /\ UNCHANGED <<users, items, reviews, next_id, now>>

get_items_count(p, page_number, query) ==
    CountStep(p, [NoCall EXCEPT !.op = "get_items", !.query = query], page_number,
              Cardinality({i \in items : query.some => Matches(i.title, query.v)}),
              PageSize)

get_items_page(p) ==
    LET query == call[p].query
    IN  PageStep(p, "get_items",
                 {[key |-> <<IF query.some THEN Similarity(i.title, query.v) ELSE 0,
                             i.score>>,
                   row |-> Item(i)] :
                     i \in {i \in ItemsScore : query.some => Matches(i.title, query.v)}},
                 PageSize, <<"/items">>)

get_users_count(p, page_number, query) ==
    CountStep(p, [NoCall EXCEPT !.op = "get_users", !.query = query], page_number,
              Cardinality({u \in users : query.some => Matches(u.username, query.v)}),
              PageSize)

get_users_page(p) ==
    LET query == call[p].query
    IN  PageStep(p, "get_users",
                 {[key |-> <<0, IF query.some THEN Similarity(u.username, query.v) ELSE 0>>,
                   row |-> User(u)] :
                     u \in {u \in users : query.some => Matches(u.username, query.v)}},
                 PageSize, <<"/users">>)

get_item_ratings_count(p, page_number, locator) ==
    CountStep(p, [NoCall EXCEPT !.op = "get_item_ratings", !.locator = locator],
              page_number,
              Cardinality({r \in reviews : r.item_id = ItemIdOf(locator)}),
              RatingPageSize)

\* reviews r JOIN users u ON r.user_id = u.id WHERE r.item_id = (the item's id)
ItemRatingRows(locator) ==
    {[user |-> User(CHOOSE u \in users : u.id = r.user_id),
      rating |-> r.rating, date |-> r.date] :
        r \in {r \in reviews : /\ r.item_id = ItemIdOf(locator)
                               /\ \E u \in users : u.id = r.user_id}}

get_item_ratings_page(p) ==
    LET locator == call[p].locator
    IN  PageStep(p, "get_item_ratings",
                 {[key |-> <<0, e.date>>, row |-> e] : e \in ItemRatingRows(locator)},
                 RatingPageSize, <<"/items/">> \o locator)

get_user_ratings_count(p, page_number, username) ==
    CountStep(p, [NoCall EXCEPT !.op = "get_user_ratings", !.username = username],
              page_number,
              Cardinality({r \in reviews : r.user_id = UserIdOf(username)}),
              RatingPageSize)

\* reviews r JOIN items_score i ON r.item_id = i.id WHERE r.user_id = (the user's id)
UserRatingRows(username) ==
    {[item |-> Item(CHOOSE i \in ItemsScore : i.id = r.item_id),
      rating |-> r.rating, date |-> r.date] :
        r \in {r \in reviews : /\ r.user_id = UserIdOf(username)
                               /\ \E i \in items : i.id = r.item_id}}

get_user_ratings_page(p) ==
    LET username == call[p].username
    IN  PageStep(p, "get_user_ratings",
                 {[key |-> <<0, e.date>>, row |-> e] : e \in UserRatingRows(username)},
                 RatingPageSize, <<"/users/">> \o username)

\* get_item_rating: the rating of the pair, None when there is no such review
GetItemRating(locator, username) ==
    LET rs == ReviewsOf(ItemIdOf(locator), UserIdOf(username))
    IN  IF rs = {} THEN None ELSE Some((CHOOSE r \in rs : TRUE).rating)

----------------------------------------------------------------------------
(* SpecPage: task p1 reads the lists while task p2 writes to the store.    *)

\* the locator of the i-th item of the initial catalog
Loc(i) == <<"m", Letters[i]>>

InitPage ==
    /\ \E n \in {0, MaxItems - 1, MaxItems} :
        items = {[id |-> i, locator |-> Loc(i),
                  title |-> IF i = 1 THEN cab ELSE cat,
                  description |-> d1] : i \in 1..n}
    /\ next_id = [users |-> 3, items |-> MaxItems + 1]
    /\ users = {UserRow(1, bob, FALSE), UserRow(2, eve, FALSE)}
    /\ reviews = {}
    /\ now = 0
    /\ call = Idle
    /\ prev = Idle
    /\ session = NoSessions
    /\ files = {}
    /\ req = NoRequests

\* Option<i32>: absent, negative, in range, too large
PageInputs == {None, Some(-1), Some(0), Some(1), Some(2)}

NextPage ==
    \/ \E n \in PageInputs, q \in {None, Some(cat)} :
            get_items_count("p1", n, q) /\ UNCHANGED <<prev, web>>
    \/ get_items_page("p1") /\ UNCHANGED <<prev, web>>
    \/ \E n \in PageInputs, q \in {None, Some(bob)} :
            get_users_count("p1", n, q) /\ UNCHANGED <<prev, web>>
    \/ get_users_page("p1") /\ UNCHANGED <<prev, web>>
    \/ \E n \in PageInputs : get_item_ratings_count("p1", n, Loc(1)) /\ UNCHANGED <<prev, web>>
    \/ get_item_ratings_page("p1") /\ UNCHANGED <<prev, web>>
    \/ \E n \in PageInputs : get_user_ratings_count("p1", n, bob) /\ UNCHANGED <<prev, web>>
    \/ get_user_ratings_page("p1") /\ UNCHANGED <<prev, web>>
    \/ add_item("p2", Loc(1), dog, d1) /\ UNCHANGED <<prev, web>>
    \/ add_item("p2", Loc(MaxItems), cat, d1) /\ UNCHANGED <<prev, web>>
    \/ \E i \in {1, MaxItems} : remove_item("p2", Loc(i)) /\ UNCHANGED <<prev, web>>
    \/ rate_item_insert("p2", bob, Loc(1), 9) /\ UNCHANGED <<prev, web>>
    \/ rate_item_update("p2") /\ UNCHANGED <<prev, web>>
    \/ remove_review("p2", Loc(1), bob) /\ UNCHANGED <<prev, web>>
    \/ remove_user("p2", eve) /\ UNCHANGED <<prev, web>>

SpecPage == InitPage /\ [][NextPage]_vars

\* C1: every page a list function returns has 0 <= current_page < number_of_pages,
\* whatever page was asked for and whatever was written between the count query
\* and the page query.
C1_PageInRange ==
    \A p \in Procs :
        call[p].page.some =>
            /\ call[p].op \in {"get_items", "get_users", "get_item_ratings",
                               "get_user_ratings"}
            /\ 0 <= call[p].page.current_page
            /\ call[p].page.current_page < call[p].page.number_of_pages

\* a second page was returned although a row was removed after the count: the page
\* is empty, and still within the counted number of pages
C1_Witness ==
    /\ call["p1"].op = "get_items"
    /\ call["p1"].page.some
    /\ call["p1"].page.current_page = 1
    /\ call["p1"].page.number_of_pages = 2
    /\ call["p1"].page.items = {}
    /\ Cardinality(items) = PageSize

\* the least k with k * d >= n
CeilOf(n, d) == CHOOSE k \in 0..n : k * d >= n /\ \A j \in 0..(k - 1) : j * d < n

\* C2: get_items answers Ok(None) for every page index outside [0, number_of_pages),
\* number_of_pages being ceil(matching_count / 12): a negative index, an index
\* >= number_of_pages, and page 0 (or no page) when nothing matches.
C2_NoPageOutOfRange ==
    \A p \in Procs :
        LET c == call[p]
        IN  (/\ c.op = "get_items"
             /\ c.pc = "done"
             /\ (c.page_number < 0 \/ c.page_number >= CeilOf(c.count, 12)))
            => (c.result = "Ok" /\ ~ c.page.some)

\* twelve items match, one full page: page 1 is no page
C2_Witness ==
    /\ call["p1"].op = "get_items"
    /\ call["p1"].pc = "done"
    /\ call["p1"].count = 12
    /\ call["p1"].page_number = 1
    /\ call["p1"].result = "Ok"
    /\ ~ call["p1"].page.some

----------------------------------------------------------------------------
(* SpecSeqPage: one task reads the item list and writes, call after call.  *)

NextSeqPage ==
    \/ \E n \in {None, Some(1)}, q \in {None, Some(cat)} :
            get_items_count("p1", n, q) /\ Starts("p1") /\ UNCHANGED web
    \/ get_items_page("p1") /\ UNCHANGED <<prev, web>>
    \/ add_item("p1", Loc(MaxItems), cat, d1) /\ Starts("p1") /\ UNCHANGED web
    \/ remove_item("p1", Loc(MaxItems)) /\ Starts("p1") /\ UNCHANGED web
    \/ \E i \in {1, 2}, r \in {3, 9} : rate_item_insert("p1", bob, Loc(i), r) /\ Starts("p1") /\ UNCHANGED web
    \/ rate_item_update("p1") /\ UNCHANGED <<prev, web>>
    \/ remove_review("p1", Loc(1), bob) /\ Starts("p1") /\ UNCHANGED web

SpecSeqPage == InitPage /\ [][NextSeqPage]_vars

\* the items get_items(_, query) ranges over
MatchingItems(query) == {i \in items : query.some => Matches(i.title, query.v)}

\* C3: with no write between the calls, get_items(p) returns min(12, N - 12 * p)
\* items for every valid p, and page 0 followed by page 1 (all the pages of the
\* catalogs modelled) hold every matching item exactly once.
C3_PagesPartition ==
    LET c == call["p1"]
        f == prev["p1"]
        N == Cardinality(MatchingItems(c.query))
    IN  /\ (c.op = "get_items" /\ c.pc = "done" /\ c.page.some)
            => Cardinality(c.page.items) = Min2(12, N - 12 * c.page.current_page)
        /\ (/\ c.op = "get_items" /\ c.pc = "done" /\ c.page.some
            /\ f.op = "get_items" /\ f.pc = "done" /\ f.page.some
            /\ f.query = c.query
            /\ f.page.current_page = 0 /\ c.page.current_page = 1
            /\ c.page.number_of_pages = 2)
            => /\ {i.locator : i \in f.page.items} \cap {i.locator : i \in c.page.items} = {}
               /\ {i.locator : i \in f.page.items} \cup {i.locator : i \in c.page.items}
                    = {i.locator : i \in MatchingItems(c.query)}

----------------------------------------------------------------------------
(* Reviews: rate_item and remove_review.                                   *)

\* clamp(r, 1, 10), as the contract states it
Clamped(r) == IF r < 1 THEN 1 ELSE IF r > 10 THEN 10 ELSE r

\* the review rows of the item with this locator by the user with this name
PairRows(locator, username) ==
    {r \in reviews : \E i \in items, u \in users :
        /\ i.locator = locator /\ u.username = username
        /\ r.item_id = i.id /\ r.user_id = u.id}

PairExists(locator, username) ==
    /\ \E i \in items : i.locator = locator
    /\ \E u \in users : u.username = username

\* C4: when a task has rated an existing item as an existing user and then
\* at once rated the same item as the same user again, both calls returned
\* Ok, the pair has exactly one review row, the row's rating is the second
\* call's rating clamped to [1,10], and its date is not earlier than the
\* date the first call wrote.
C4_RateTwice ==
    LET f == prev["p1"]
        c == call["p1"]
    IN  ( /\ f.op = "rate_item" /\ f.pc = "done"
          /\ c.op = "rate_item" /\ c.pc = "done"
          /\ f.username = c.username /\ f.locator = c.locator
          /\ PairExists(c.locator, c.username) )
        => /\ f.result = "Ok"
           /\ c.result = "Ok"
           /\ Cardinality(PairRows(c.locator, c.username)) = 1
           /\ \A r \in PairRows(c.locator, c.username) :
                  r.rating = Clamped(c.rating_in) /\ r.date >= f.date

\* bob rated m1 with 11 and then, later, with -32768: one row, rating 1
C4_Witness ==
    /\ prev["p1"].op = "rate_item" /\ prev["p1"].pc = "done"
    /\ prev["p1"].username = bob /\ prev["p1"].locator = m1
    /\ prev["p1"].rating_in = 11 /\ prev["p1"].date = 0
    /\ call["p1"].op = "rate_item" /\ call["p1"].pc = "done"
    /\ call["p1"].username = bob /\ call["p1"].locator = m1
    /\ call["p1"].rating_in = -32768 /\ call["p1"].result = "Ok"
    /\ PairRows(m1, bob) = {[item_id |-> 1, user_id |-> 1, rating |-> 1, date |-> 1]}

\* C5: in every state reached by interleaved rate_item, remove_review,
\* edit_user, edit_item, remove_user and remove_item calls, no two review
\* rows have the same item and the same user.
C5_OneReviewPerPair ==
    \A r1, r2 \in reviews :
        (r1.item_id = r2.item_id /\ r1.user_id = r2.user_id) => r1 = r2

\* both users' reviews stand after the item and a user were renamed and a
\* second rating of a pair ran into the first
C5_Witness ==
    /\ Cardinality(reviews) = 2
    /\ \E i \in items : i.locator = m2
    /\ \E u \in users : u.username = zed
    /\ \E p \in Procs : /\ call[p].op = "rate_item" /\ call[p].pc = "update"
                        /\ call[p].locator = m1 /\ call[p].username = bob

\* C6: when two tasks have each finished a rate_item call for the same
\* existing item and user, their statements interleaved in any order, both
\* calls returned Ok, the pair has exactly one review row, and the row's
\* rating is the clamped rating of one of the two calls.
C6_ConcurrentRate ==
    \A p, q \in Procs :
        ( /\ p # q
          /\ call[p].op = "rate_item" /\ call[p].pc = "done"
          /\ call[q].op = "rate_item" /\ call[q].pc = "done"
          /\ call[p].username = call[q].username
          /\ call[p].locator = call[q].locator
          /\ PairExists(call[p].locator, call[p].username) )
        => /\ call[p].result = "Ok"
           /\ call[q].result = "Ok"
           /\ Cardinality(PairRows(call[p].locator, call[p].username)) = 1
           /\ \A r \in PairRows(call[p].locator, call[p].username) :
                  r.rating \in {Clamped(call[p].rating_in), Clamped(call[q].rating_in)}

\* both calls made their INSERT attempt at time 0 and their UPDATE at time 1
C6_Witness ==
    /\ call["p1"].op = "rate_item" /\ call["p1"].pc = "done"
    /\ call["p2"].op = "rate_item" /\ call["p2"].pc = "done"
    /\ call["p1"].username = bob /\ call["p2"].username = bob
    /\ call["p1"].begun = 0 /\ call["p2"].begun = 0
    /\ call["p1"].date = 1 /\ call["p2"].date = 1
    /\ call["p1"].rating_in = -32768 /\ call["p2"].rating_in = 32767
    /\ call["p1"].result = "Ok" /\ call["p2"].result = "Ok"
    /\ Cardinality(PairRows(m1, bob)) = 1

\* C7: every review row a step writes, by the INSERT or by the UPDATE,
\* carries a rating in [1,10] that is the writing call's 16-bit input with
\* values below 1 raised to 1, values above 10 lowered to 10, and values in
\* range unchanged.
C7_RatingClamped ==
    [][\A r \in reviews' \ reviews :
          \E p \in Procs :
              /\ call'[p].op = "rate_item" /\ call'[p].pc = "done"
              /\ call'[p].rating_in \in -32768..32767
              /\ r.rating = Clamped(call'[p].rating_in)
              /\ r.rating \in 1..10]_vars

\* a call wrote 10 for the input 32767, and a later UPDATE wrote 1 for the
\* input -32768 over it
C7_Witness ==
    /\ call["p1"].op = "rate_item" /\ call["p1"].pc = "done"
    /\ call["p1"].rating_in = 32767 /\ call["p1"].rating = 10
    /\ call["p1"].begun = call["p1"].date
    /\ call["p2"].op = "rate_item" /\ call["p2"].pc = "done"
    /\ call["p2"].rating_in = -32768
    /\ call["p2"].username = call["p1"].username
    /\ call["p2"].date > call["p1"].date
    /\ call["p2"].date > call["p2"].begun
    /\ \A r \in PairRows(m1, call["p1"].username) : r.rating = 1
    /\ PairRows(m1, call["p1"].username) # {}

\* C8: a remove_review call returns Ok; for a pair without a review it
\* leaves every table as it was, and for a pair with a review it deletes
\* that row and no other.
C8_RemoveReviewIdempotent ==
    [][\A p \in Procs, l \in {m1, m2}, u \in {bob, eve} :
          remove_review(p, l, u) =>
              /\ call'[p].result = "Ok"
              /\ users' = users /\ items' = items
              /\ PairRows(l, u) = {} => reviews' = reviews
              /\ PairRows(l, u) # {} =>
                    /\ reviews' = reviews \ PairRows(l, u)
                    /\ Cardinality(reviews') = Cardinality(reviews) - 1]_vars

\* bob's review of m1, which a rate_item call had written, is gone after
\* remove_review(m1, bob), and eve's review of m1 is still there
C8_Witness ==
    /\ call["p1"].op = "remove_review" /\ call["p1"].pc = "done"
    /\ call["p1"].locator = m1 /\ call["p1"].username = bob
    /\ call["p1"].result = "Ok"
    /\ call["p2"].op = "rate_item" /\ call["p2"].result = "Ok"
    /\ call["p2"].locator = m1 /\ call["p2"].username = bob
    /\ PairExists(m1, bob)
    /\ PairRows(m1, bob) = {}
    /\ PairRows(m1, eve) # {}

----------------------------------------------------------------------------
(* SpecReg: one task registers users, and removes them again.              *)

\* One administrator, nothing else.
InitAcct ==
    /\ users = {UserRow(1, eve, TRUE)}
    /\ items = {}
    /\ reviews = {}
    /\ next_id = [users |-> 2, items |-> 1]
    /\ now = 0
    /\ call = Idle
    /\ prev = Idle
    /\ session = NoSessions
    /\ files = {}
    /\ req = NoRequests

NextReg ==
    \/ \E u \in {Empty, Blank, sp_b, a_b, bob, eve},
          p1 \in {Blank, x_pw, Weak79, Fair80, Str0ng},
          p2 \in {Blank, x_pw, Weak79, Fair80, Str0ng} :
            register_user_insert("p1", u, p1, p2) /\ UNCHANGED <<prev, web>>
    \/ register_user_login("p1") /\ UNCHANGED <<prev, web>>
    \/ remove_user("p1", bob) /\ UNCHANGED <<prev, web>>

SpecReg == InitAcct /\ [][NextReg]_vars

\* the checks of registration in the order of the contract, each with the
\* error it reports; the last one looks at the users there are
RegisterFailure(i, username, password1, password2) ==
    CASE i = 1 -> TrimIsEmpty(username) \/ TrimIsEmpty(password1) \/ TrimIsEmpty(password2)
      [] i = 2 -> ~ (username # << >> /\ \A k \in DOMAIN username : username[k] \in WordChars)
      [] i = 3 -> password1 # password2
      [] i = 4 -> PasswordScore(password1) < 80
      [] i = 5 -> \E u \in users : u.username = username

RegisterErrors ==
    <<"EmptyFields", "IllegalUsername", "PasswordsDiffer", "WeakPassword", "DuplicateUser">>

FirstFailure(username, password1, password2) ==
    LET failed == {i \in 1..5 : RegisterFailure(i, username, password1, password2)}
    IN  IF failed = {} THEN "Ok"
        ELSE RegisterErrors[CHOOSE i \in failed : \A j \in failed : i <= j]

\* C9: a register_user call reports the first check that fails, in the
\* order blank input (EmptyFields), username not matching ^\w+$
\* (IllegalUsername), passwords that differ (PasswordsDiffer), strength
\* score below 80 (WeakPassword), username already there (DuplicateUser);
\* with no failing check it inserts the user and returns Ok.
C9_RegisterCheckOrder ==
    [][\A p \in Procs :
          LET c == call'[p]
              first == FirstFailure(c.username, c.password, c.password2)
          IN  /\ ( /\ Free(p) /\ c.op = "register_user"
                   /\ <<call[p], users>> # <<c, users'>> )
                  => IF first = "Ok"
                     THEN /\ c.pc = "login"
                          /\ \E u \in users' \ users : u.username = c.username
                     ELSE /\ c.pc = "done" /\ c.result = first
                          /\ users' = users
              /\ (call[p].op = "register_user" /\ call[p].pc = "login")
                  => c.pc = "done" /\ c.result = "Ok"]_vars

\* register("a b", "x", "Weak79"): the username is illegal, the passwords
\* differ and are weak, and the call reported IllegalUsername
C9_Witness ==
    /\ call["p1"].op = "register_user" /\ call["p1"].pc = "done"
    /\ call["p1"].username = a_b
    /\ call["p1"].password = x_pw /\ call["p1"].password2 = Weak79
    /\ call["p1"].result = "IllegalUsername"
    /\ \E u \in users : u.username = bob /\ u.password_hash[3] = Fair80

----------------------------------------------------------------------------
(* SpecSeqAcct: one task registers, logs in, edits and removes users, one   *)
(* call after the other.                                                   *)

NextSeqAcct ==
    \/ \E u \in {bob, eve}, p1 \in {Str0ng, C0rrect}, p2 \in {Str0ng, C0rrect} :
            register_user_insert("p1", u, p1, p2) /\ Starts("p1") /\ UNCHANGED web
    \/ register_user_login("p1") /\ UNCHANGED <<prev, web>>
    \/ \E u \in {bob, eve}, pw \in {Str0ng, C0rrect} :
            login_user("p1", u, pw) /\ Starts("p1") /\ UNCHANGED web
    \/ \E n \in {None, Some(zed)}, pw \in {None, Some(C0rrect)} :
            edit_user("p1", bob, n, None, pw, pw) /\ Starts("p1") /\ UNCHANGED web
    \/ \E u \in {bob, zed} : remove_user("p1", u) /\ Starts("p1") /\ UNCHANGED web

SpecSeqAcct == InitAcct /\ [][NextSeqAcct]_vars

\* C10: when register_user(u, p, p) returned Ok and the same task's next
\* call is login_user(u, p), that call returns Ok with a User whose
\* username is u and whose is_admin is false, and register_user had
\* returned that same User.
C10_RegisterThenLogin ==
    LET f == prev["p1"]
        c == call["p1"]
    IN  ( /\ f.op = "register_user" /\ f.pc = "done" /\ f.result = "Ok"
          /\ f.password = f.password2
          /\ c.op = "login_user" /\ c.pc = "done"
          /\ c.username = f.username /\ c.password = f.password )
        => /\ c.result = "Ok"
           /\ c.user.username = f.username
           /\ c.user.is_admin = FALSE
           /\ f.user = c.user

\* bob registered with Str0ng!Pass123 beside the administrator eve, got
\* the hue 180, and logged in
C10_Witness ==
    /\ prev["p1"].op = "register_user" /\ prev["p1"].result = "Ok"
    /\ prev["p1"].username = bob /\ prev["p1"].password = Str0ng
    /\ call["p1"].op = "login_user" /\ call["p1"].pc = "done"
    /\ call["p1"].username = bob /\ call["p1"].password = Str0ng
    /\ call["p1"].result = "Ok"
    /\ call["p1"].user = [username |-> bob, is_admin |-> FALSE,
                          avatar_hue |-> 180, has_avatar |-> FALSE]
    /\ \E u \in users : u.username = eve /\ u.is_admin

----------------------------------------------------------------------------
(* The request handlers of main.rs.  A handler is run by a task on behalf  *)
(* of a client session and answers with a status and, to an htmx request,  *)
(* a form that shows the error's message.                                  *)

\* impl Display for DatabaseError
ErrorMessage(kind) ==
    CASE kind = "InternalError" -> "Internal server error!"
      [] kind = "IncorrectCredentials" -> "Incorrect login credentials!"
      [] kind = "EmptyFields" -> "Some fields are empty!"
      [] kind = "PasswordsDiffer" -> "Passwords do not match!"
      [] kind = "DuplicateUser" -> "User with this username already exists!"
      [] kind = "WeakPassword" -> "Password is not strong enough!"
      [] kind = "IllegalUsername" ->
            "Only alphanumerical characters and underscores are allowed in usernames!"
      [] kind = "DuplicateItem" -> "Item with this locator already exists!"
      [] kind = "NotValidImage" -> "Uploaded file is not a valid image"
      [] kind = "IllegalLocator" ->
            "Only alphanumerical characters and underscores are allowed in item locator!"

\* What a handler answers: the status, and the message in the form it renders.
Answer(c, status, message) == [c EXCEPT !.pc = "done", !.status = status, !.message = message]

login_handler(p, s, is_htmx, username, password) ==
    LET r == LoginResult(username, password)
        c == [NoCall EXCEPT !.op = "login_handler", !.username = username,
                            !.password = password, !.is_htmx = is_htmx,
                            !.result = r.result, !.user = r.user]
    IN  /\ Free(p)
        /\ IF r.result = "Ok"
           THEN /\ session' = [session EXCEPT ![s] = Some(r.user)]
                /\ call' = [call EXCEPT ![p] = Answer(c, 200, "")]
           ELSE /\ UNCHANGED session
                /\ call' = [call EXCEPT ![p] =
                                IF is_htmx
                                THEN Answer(c, 200, ErrorMessage(r.result))
                                ELSE Answer(c, 401, "")]
        /\ UNCHANGED <<users, items, reviews, next_id, now, files>>

----------------------------------------------------------------------------
(* SpecLogin: two clients log in while users are registered and removed.   *)

LoginNames == {Blank, bob, eve}
LoginPasswords == {Blank, Str0ng, C0rrect}

NextLogin ==
    \/ \E h \in BOOLEAN, u \in LoginNames, pw \in LoginPasswords :
            login_handler("p1", "s1", h, u, pw) /\ UNCHANGED <<prev, req>>
    \/ \E h \in BOOLEAN, u \in {bob, eve} :
            login_handler("p2", "s2", h, u, C0rrect) /\ UNCHANGED <<prev, req>>
    \/ register_user_insert("p2", bob, C0rrect, C0rrect) /\ UNCHANGED <<prev, web>>
    \/ register_user_login("p2") /\ UNCHANGED <<prev, web>>
    \/ remove_user("p2", bob) /\ UNCHANGED <<prev, web>>

SpecLogin == InitAcct /\ [][NextLogin]_vars

\* a login that must fail: no user of that name, or a password that is not
\* the one the user's hash was made from
BadLogin(username, password) ==
    \A u \in users :
        u.username = username =>
            \A salt \in Salts : u.password_hash # Argon2Hash(password, salt)

\* C11: a login with non-blank inputs for a username that is not there and
\* one for a username that is there with a wrong password are answered
\* alike: the error kind is IncorrectCredentials, the status and the
\* message depend on nothing but the request being htmx or not, and the
\* store, the sessions and the files stay as they were.
C11_NoExistenceOracle ==
    [][\A p \in Procs, s \in Sessions, h \in BOOLEAN,
          u \in LoginNames, pw \in LoginPasswords :
          ( /\ call'[p].op = "login_handler"
            /\ <<call'[p].username, call'[p].password, call'[p].is_htmx>> = <<u, pw, h>>
            /\ login_handler(p, s, h, u, pw)
            /\ ~ TrimIsEmpty(u) /\ ~ TrimIsEmpty(pw)
            /\ BadLogin(u, pw) )
          => /\ call'[p].result = "IncorrectCredentials"
             /\ call'[p].user = NoUser
             /\ call'[p].status = IF h THEN 200 ELSE 401
             /\ call'[p].message = IF h THEN "Incorrect login credentials!" ELSE ""
             /\ UNCHANGED <<users, items, reviews, next_id, session, files>>]_vars

\* one client was refused for bob, who is not there, the other for eve with
\* a wrong password, and the two answers are the same
C11_Witness ==
    /\ call["p1"].op = "login_handler" /\ call["p1"].pc = "done"
    /\ call["p1"].username = bob /\ call["p1"].password = C0rrect
    /\ ~ \E u \in users : u.username = bob
    /\ call["p2"].op = "login_handler" /\ call["p2"].pc = "done"
    /\ call["p2"].username = eve /\ call["p2"].password = C0rrect
    /\ \E u \in users : u.username = eve /\ u.password_hash = Argon2Hash(Str0ng, "s1")
    /\ call["p1"].is_htmx /\ call["p2"].is_htmx
    /\ call["p1"].result = "IncorrectCredentials"
    /\ <<call["p1"].result, call["p1"].status, call["p1"].message, call["p1"].user>>
         = <<call["p2"].result, call["p2"].status, call["p2"].message, call["p2"].user>>
    /\ session = NoSessions

----------------------------------------------------------------------------
(* SpecRegRace: two tasks each make one register_user call, their INSERTs  *)
(* and implicit logins interleaved.                                        *)

RaceNames == {bob, eve, a_b}
RacePasswords == {Str0ng, C0rrect, Weak79}

NextRegRace ==
    \/ \E p \in Procs, u \in RaceNames, p1 \in RacePasswords, p2 \in RacePasswords :
            /\ call[p].pc = "idle"
            /\ register_user_insert(p, u, p1, p2)
            /\ UNCHANGED <<prev, web>>
    \/ \E p \in Procs : register_user_login(p) /\ UNCHANGED <<prev, web>>

SpecRegRace == InitAcct /\ [][NextRegRace]_vars

\* C12: no two user rows have the same username, and when both tasks have
\* finished registering the same valid username, free before, with strong
\* matching passwords, one call returned Ok, the other DuplicateUser, and
\* there is one user row of that name.
C12_ConcurrentRegister ==
    /\ \A u1, u2 \in users : u1.username = u2.username => u1 = u2
    /\ \A p, q \in Procs :
        ( /\ p # q
          /\ call[p].op = "register_user" /\ call[p].pc = "done"
          /\ call[q].op = "register_user" /\ call[q].pc = "done"
          /\ call[p].username = call[q].username
          /\ IsWord(call[p].username) /\ call[p].username # eve
          /\ call[p].password = call[p].password2 /\ call[p].password \in {Str0ng, C0rrect}
          /\ call[q].password = call[q].password2 /\ call[q].password \in {Str0ng, C0rrect} )
        => /\ {call[p].result, call[q].result} = {"Ok", "DuplicateUser"}
           /\ Cardinality({u \in users : u.username = call[p].username}) = 1

\* both registered bob, with different passwords: the first task got
\* DuplicateUser and bob's hash is the one of the second task's password
C12_Witness ==
    /\ call["p1"].op = "register_user" /\ call["p1"].pc = "done"
    /\ call["p1"].username = bob /\ call["p1"].password = Str0ng
    /\ call["p1"].result = "DuplicateUser"
    /\ call["p2"].op = "register_user" /\ call["p2"].pc = "done"
    /\ call["p2"].username = bob /\ call["p2"].password = C0rrect
    /\ call["p2"].result = "Ok"
    /\ \E u \in users : u.username = bob /\ u.password_hash[3] = C0rrect

----------------------------------------------------------------------------
(* SpecItems: two tasks add, edit and remove items.                        *)

m3 == <<"m", "3">>

\* Two users, two items and three reviews.
InitItems ==
    /\ users = {UserRow(1, bob, FALSE), UserRow(2, eve, FALSE)}
    /\ items = {ItemRow(1, m1), ItemRow(2, m2)}
    /\ reviews = {[item_id |-> 1, user_id |-> 1, rating |-> 7, date |-> 0],
                  [item_id |-> 1, user_id |-> 2, rating |-> 3, date |-> 0],
                  [item_id |-> 2, user_id |-> 1, rating |-> 9, date |-> 0]}
    /\ next_id = [users |-> 3, items |-> MaxItems + 1]
    /\ now = 0
    /\ call = Idle
    /\ prev = Idle
    /\ session = NoSessions
    /\ files = {}
    /\ req = NoRequests

AddLocators == {m1, m3, a_b}
Titles == {Blank, t1, cat}
EditLocators == {m1, m3}
NewLocators == {None, Some(m1), Some(m3)}
NewTitles == {None, Some(Blank), Some(cat)}

NextItems ==
    \/ \E p \in Procs, l \in AddLocators, t \in Titles :
            add_item(p, l, t, d1) /\ UNCHANGED <<prev, web>>
    \/ \E p \in Procs, l \in EditLocators, nl \in NewLocators, nt \in NewTitles :
            edit_item(p, l, nl, nt, None) /\ UNCHANGED <<prev, web>>
    \/ \E p \in Procs, l \in {m1, m3} : remove_item(p, l) /\ UNCHANGED <<prev, web>>

SpecItems == InitItems /\ [][NextItems]_vars

UniqueLocators == \A i, j \in items : i.locator = j.locator => i = j

\* C13 as stated: an add_item call with a valid, non-blank locator that
\* names an item fails with DuplicateItem, whatever the title and the
\* description are, and leaves the store as it was; locators are unique.
C13_AddDuplicate_AnyTitle ==
    [][/\ UniqueLocators'
       /\ \A p \in Procs, l \in AddLocators, t \in Titles :
            ( /\ call'[p].op = "add_item"
              /\ add_item(p, l, t, d1)
              /\ ~ TrimIsEmpty(l) /\ IsWord(l)
              /\ \E i \in items : i.locator = l )
            => /\ call'[p].result = "DuplicateItem"
               /\ UNCHANGED <<users, items, reviews, next_id>>]_vars

\* C13: an add_item call with a valid, non-blank locator that names an
\* item, and with a non-blank title and description, fails with
\* DuplicateItem and leaves the store as it was, the item's title and
\* description included; no two items ever have the same locator.
C13_AddDuplicate ==
    [][/\ UniqueLocators'
       /\ \A p \in Procs, l \in AddLocators, t \in Titles :
            ( /\ call'[p].op = "add_item"
              /\ add_item(p, l, t, d1)
              /\ ~ TrimIsEmpty(l) /\ IsWord(l)
              /\ ~ TrimIsEmpty(t) /\ ~ TrimIsEmpty(d1)
              /\ \E i \in items : i.locator = l )
            => /\ call'[p].result = "DuplicateItem"
               /\ UNCHANGED <<users, items, reviews, next_id>>]_vars

\* an add_item call for m1 was refused as a duplicate beside an item that
\* another add_item call created, and m1 still has its title
C13_Witness ==
    /\ call["p1"] = Done("add_item", "DuplicateItem")
    /\ call["p2"] = Done("add_item", "Ok")
    /\ \E i \in items : i.locator = m1 /\ i.title = t1 /\ i.id = 1
    /\ \E i \in items : i.locator = m3 /\ i.title = cat
    /\ UniqueLocators

\* C14 as stated: an edit_item call that renames an existing item to the
\* locator it has returns Ok, whatever the other fields are, and the item
\* keeps its locator and its reviews.
C14_SelfRename_AnyTitle ==
    [][\A p \in Procs, l \in EditLocators, nt \in NewTitles :
          ( /\ call'[p].op = "edit_item"
            /\ edit_item(p, l, Some(l), nt, None)
            /\ \E i \in items : i.locator = l )
          => /\ call'[p].result = "Ok"
             /\ \A i \in items : i.locator = l =>
                    \E j \in items' : j.id = i.id /\ j.locator = l
             /\ reviews' = reviews]_vars

\* C14: an edit_item call that renames an existing item to the locator it
\* has, the other fields absent or non-blank, returns Ok and not
\* DuplicateItem, and the item keeps its locator and its reviews.
C14_SelfRename ==
    [][\A p \in Procs, l \in EditLocators, nt \in NewTitles :
          ( /\ call'[p].op = "edit_item"
            /\ edit_item(p, l, Some(l), nt, None)
            /\ nt.some => ~ TrimIsEmpty(nt.v)
            /\ \E i \in items : i.locator = l )
          => /\ call'[p].result = "Ok"
             /\ \A i \in items : i.locator = l =>
                    \E j \in items' : j.id = i.id /\ j.locator = l
             /\ reviews' = reviews]_vars

\* item 1 was renamed to its own locator m1 with a new title, beside the
\* item m3; its two reviews are there
C14_Witness ==
    /\ call["p1"] = Done("edit_item", "Ok")
    /\ \E i \in items : i.id = 1 /\ i.locator = m1 /\ i.title = cat
    /\ \E i \in items : i.locator = m3
    /\ Cardinality({r \in reviews : r.item_id = 1}) = 2

----------------------------------------------------------------------------
(* SpecEdit: two tasks edit items and users.                               *)

d2 == <<"d", "2">>

EditUsers == {bob, zed}
NewUsernames == {None, Some(zed)}
NewAvatars == {None, Some(TRUE)}
NewPasswordPairs == {<<None, None>>, <<Some(C0rrect), None>>, <<Some(C0rrect), Some(C0rrect)>>}
NewItemLocators == {None, Some(m3)}
NewItemTitles == {None, Some(cat)}
NewDescriptions == {None, Some(d2)}

NextEdit ==
    \/ \E p \in Procs, l \in EditLocators, nl \in NewItemLocators,
          nt \in NewItemTitles, nd \in NewDescriptions :
            edit_item(p, l, nl, nt, nd) /\ UNCHANGED <<prev, web>>
    \/ \E p \in Procs, u \in EditUsers, nu \in NewUsernames, ha \in NewAvatars,
          pw \in NewPasswordPairs :
            edit_user(p, u, nu, ha, pw[1], pw[2]) /\ UNCHANGED <<prev, web>>

SpecEdit == InitItems /\ [][NextEdit]_vars

\* C15: a successful edit_item or edit_user call keeps, on the row it
\* names, the value of every field passed as None (the password hash when
\* a password is not given twice), keeps the row's id, and so its reviews,
\* and leaves every other row and every review as it was.
C15_PartialUpdate ==
    [][/\ \A p \in Procs, l \in EditLocators, nl \in NewItemLocators,
             nt \in NewItemTitles, nd \in NewDescriptions :
            (call'[p] = Done("edit_item", "Ok") /\ edit_item(p, l, nl, nt, nd))
            => /\ \A i \in items :
                    IF i.locator = l
                    THEN \E j \in items' :
                            /\ j.id = i.id
                            /\ ~ nl.some => j.locator = i.locator
                            /\ ~ nt.some => j.title = i.title
                            /\ ~ nd.some => j.description = i.description
                    ELSE i \in items'
               /\ Cardinality(items') = Cardinality(items)
               /\ reviews' = reviews /\ users' = users
       /\ \A p \in Procs, u \in EditUsers, nu \in NewUsernames, ha \in NewAvatars,
             pw \in NewPasswordPairs :
            (call'[p] = Done("edit_user", "Ok") /\ edit_user(p, u, nu, ha, pw[1], pw[2]))
            => /\ \A r \in users :
                    IF r.username = u
                    THEN \E j \in users' :
                            /\ j.id = r.id
                            /\ j.is_admin = r.is_admin /\ j.avatar_hue = r.avatar_hue
                            /\ ~ nu.some => j.username = r.username
                            /\ ~ ha.some => j.has_avatar = r.has_avatar
                            /\ ~ (pw[1].some /\ pw[2].some) =>
                                    j.password_hash = r.password_hash
                    ELSE r \in users'
               /\ Cardinality(users') = Cardinality(users)
               /\ reviews' = reviews /\ items' = items]_vars

\* item 1 has a new description and the locator and title it had, user 1
\* has a new name and the avatar flag and hash it had, and the reviews of
\* both are there
C15_Witness ==
    /\ call["p1"] = Done("edit_item", "Ok")
    /\ call["p2"] = Done("edit_user", "Ok")
    /\ ItemRow(2, m2) \in items
    /\ [ItemRow(1, m1) EXCEPT !.description = d2] \in items
    /\ UserRow(2, eve, FALSE) \in users
    /\ [UserRow(1, bob, FALSE) EXCEPT !.username = zed] \in users
    /\ Cardinality({r \in reviews : r.item_id = 1}) = 2
    /\ Cardinality({r \in reviews : r.user_id = 1}) = 2

----------------------------------------------------------------------------
(* SpecUsers: two tasks rename users and change passwords.                 *)

RenameTargets == {None, Some(eve), Some(zed)}
PasswordFields == {None, Some(Empty), Some(Blank), Some(Weak79), Some(C0rrect)}

NextUsers ==
    \E p \in Procs, u \in {bob, eve}, nu \in RenameTargets,
       pw1 \in PasswordFields, pw2 \in PasswordFields :
        edit_user(p, u, nu, None, pw1, pw2) /\ UNCHANGED <<prev, web>>

SpecUsers == InitItems /\ [][NextUsers]_vars

\* C16: an edit_user call that renames an existing user to a valid username
\* that another user holds, the password fields absent, fails with
\* DuplicateUser and leaves the user rows as they were.
C16_RenameConflictKind ==
    [][\A p \in Procs, u \in {bob, eve}, nu \in RenameTargets :
          ( /\ call'[p].op = "edit_user"
            /\ edit_user(p, u, nu, None, None, None)
            /\ nu.some /\ nu.v # u
            /\ \E r \in users : r.username = u
            /\ \E r \in users : r.username = nu.v )
          => /\ call'[p].result = "DuplicateUser"
             /\ users' = users]_vars

\* absent, or blank after trimming
AbsentOrBlank(field) == ~ field.some \/ TrimIsEmpty(field.v)

\* C17: an edit_user call in which one of the two password fields is absent
\* or blank raises neither PasswordsDiffer nor WeakPassword and leaves
\* every stored password hash as it was.
C17_PasswordChangeNeedsBoth ==
    [][\A p \in Procs, u \in {bob, eve}, nu \in RenameTargets,
          pw1 \in PasswordFields, pw2 \in PasswordFields :
          ( /\ call'[p].op = "edit_user"
            /\ AbsentOrBlank(pw1) \/ AbsentOrBlank(pw2)
            /\ edit_user(p, u, nu, None, pw1, pw2) )
          => /\ call'[p].result \notin {"PasswordsDiffer", "WeakPassword"}
             /\ \A r \in users : \E j \in users' :
                    j.id = r.id /\ j.password_hash = r.password_hash]_vars

----------------------------------------------------------------------------
(* The item handlers: item_add_handler, item_edit_handler and              *)
(* item_remove_handler.  Each await of a handler is a step of its own.     *)

\* A task runs one handler at a time, and a handler one database call.
ReqFree(p) == req[p].pc \in {"idle", "done"} /\ Free(p)

Respond(r, status, message) ==
    [r EXCEPT !.pc = "done", !.status = status, !.message = message]

\* the form with the error's message to an htmx request, else the bare status
ErrorAnswer(r, kind, status) ==
    IF r.is_htmx THEN Respond(r, 200, ErrorMessage(kind)) ELSE Respond(r, status, "")

\* .unwrap() on an Err: the task panics and the client gets no answer
Panicked(r) == Respond(r, 0, "panicked")

ItemFile(locator) == {f \in files : f.dir = "items" /\ f.name = locator}

\* File::create(path) and write_all(data): the file is made or overwritten
FileWritten(dir, name, data) ==
    {f \in files : ~ (f.dir = dir /\ f.name = name)}
        \cup {[dir |-> dir, name |-> name, data |-> data]}

\* rename(from, to) of an existing file: the destination is replaced
FileRenamed(dir, from, to) ==
    {f \in files : ~ (f.dir = dir /\ f.name \in {from, to})}
        \cup {[f EXCEPT !.name = to] : f \in {g \in files : g.dir = dir /\ g.name = from}}

\* item_remove_handler that asks for a session, not for an admin
item_remove_handler_AnyUser(p, s, is_htmx, locator) ==
    LET user == session[s]
        r == [NoReq EXCEPT !.op = "item_remove_handler", !.s = s, !.user = user,
                           !.is_htmx = is_htmx, !.path = locator]
    IN  /\ ReqFree(p)
        /\ req' = [req EXCEPT ![p] =
                      IF user.some
                      THEN [r EXCEPT !.pc = "remove_item"]
                      ELSE Respond(r, 403, "")]
        /\ UNCHANGED <<users, items, reviews, next_id, now, call, session, files>>

item_remove_handler(p, s, is_htmx, locator) ==
    LET user == session[s]
        r == [NoReq EXCEPT !.op = "item_remove_handler", !.s = s, !.user = user,
                           !.is_htmx = is_htmx, !.path = locator]
    IN  /\ ReqFree(p)
        /\ req' = [req EXCEPT ![p] =
                      IF user.some /\ user.v.is_admin
                      THEN [r EXCEPT !.pc = "remove_item"]
                      ELSE Respond(r, 403, "")]
        /\ UNCHANGED <<users, items, reviews, next_id, now, call, session, files>>

\* database::remove_item(&pool, &locator).await
item_remove_handler_remove_item(p) ==
    /\ req[p].op = "item_remove_handler" /\ req[p].pc = "remove_item"
    /\ remove_item(p, req[p].path)
    /\ req' = [req EXCEPT ![p].pc = "remove_file"]
    /\ UNCHANGED <<session, files>>

\* remove_file("static/images/items/" + locator).await.unwrap()
item_remove_handler_remove_file(p) ==
    /\ req[p].op = "item_remove_handler" /\ req[p].pc = "remove_file"
    /\ IF ItemFile(req[p].path) = {}
       THEN /\ req' = [req EXCEPT ![p] = Panicked(@)]
            /\ UNCHANGED files
       ELSE /\ files' = files \ ItemFile(req[p].path)
            /\ req' = [req EXCEPT ![p] = Respond(@, 200, "")]
    /\ UNCHANGED <<users, items, reviews, next_id, now, call, session>>

item_add_handler(p, s, is_htmx, locator, title, description, image) ==
    LET user == session[s]
        r == [NoReq EXCEPT !.op = "item_add_handler", !.s = s, !.user = user,
                           !.is_htmx = is_htmx, !.new_name = locator, !.title = title,
                           !.description = description, !.image = image]
    IN  /\ ReqFree(p)
        /\ req' = [req EXCEPT ![p] =
                      IF ~ (user.some /\ user.v.is_admin)
                      THEN Respond(r, 403, "")
                      ELSE IF image.some /\ ~ image.is_image
                      THEN ErrorAnswer(r, "NotValidImage", 422)
                      ELSE IF ~ locator.some \/ ~ image.some \/ ~ title.some
                                \/ ~ description.some
                      THEN ErrorAnswer(r, "EmptyFields", 422)
                      ELSE [r EXCEPT !.pc = "add_item"]]
        /\ UNCHANGED <<users, items, reviews, next_id, now, call, session, files>>

\* database::add_item(&pool, &locator, &title, &description).await
item_add_handler_add_item(p) ==
    /\ req[p].op = "item_add_handler" /\ req[p].pc = "add_item"
    /\ add_item(p, req[p].new_name.v, req[p].title.v, req[p].description.v)
    /\ req' = [req EXCEPT ![p] =
                  IF call'[p].result = "Ok"
                  THEN [@ EXCEPT !.pc = "create_file"]
                  ELSE ErrorAnswer(@, call'[p].result, 401)]
    /\ UNCHANGED <<session, files>>

\* File::create("static/images/items/" + locator) and write_all(&image)
item_add_handler_create_file(p) ==
    /\ req[p].op = "item_add_handler" /\ req[p].pc = "create_file"
    /\ files' = FileWritten("items", req[p].new_name.v, req[p].image.v)
    /\ req' = [req EXCEPT ![p] = Respond(@, 200, "")]
    /\ UNCHANGED <<users, items, reviews, next_id, now, call, session>>

item_edit_handler(p, s, is_htmx, locator, new_locator, new_title, new_description, new_image) ==
    LET user == session[s]
        r == [NoReq EXCEPT !.op = "item_edit_handler", !.s = s, !.user = user,
                           !.is_htmx = is_htmx, !.path = locator,
                           !.new_name = new_locator, !.title = new_title,
                           !.description = new_description, !.image = new_image]
    IN  /\ ReqFree(p)
        /\ req' = [req EXCEPT ![p] =
                      IF ~ (user.some /\ user.v.is_admin)
                      THEN Respond(r, 403, "")
                      ELSE IF new_image.some /\ ~ new_image.is_image
                      THEN ErrorAnswer(r, "NotValidImage", 422)
                      ELSE IF ~ new_locator.some \/ ~ new_title.some
                                \/ ~ new_description.some
                      THEN ErrorAnswer(r, "EmptyFields", 422)
                      ELSE [r EXCEPT !.pc = "edit_item"]]
        /\ UNCHANGED <<users, items, reviews, next_id, now, call, session, files>>

\* database::edit_item(&pool, &locator, new_locator, new_title, new_description).await
item_edit_handler_edit_item(p) ==
    /\ req[p].op = "item_edit_handler" /\ req[p].pc = "edit_item"
    /\ edit_item(p, req[p].path, req[p].new_name, req[p].title, req[p].description)
    /\ req' = [req EXCEPT ![p] =
                  IF call'[p].result = "Ok"
                  THEN [@ EXCEPT !.pc = "rename"]
                  ELSE ErrorAnswer(@, call'[p].result, 401)]
    /\ UNCHANGED <<session, files>>

\* rename("static/images/items/" + locator, ... + new_locator).await.unwrap()
item_edit_handler_rename(p) ==
    /\ req[p].op = "item_edit_handler" /\ req[p].pc = "rename"
    /\ IF ItemFile(req[p].path) = {}
       THEN /\ req' = [req EXCEPT ![p] = Panicked(@)]
            /\ UNCHANGED files
       ELSE /\ files' = FileRenamed("items", req[p].path, req[p].new_name.v)
            /\ req' = [req EXCEPT ![p] =
                          IF req[p].image.some
                          THEN [@ EXCEPT !.pc = "create_file"]
                          ELSE Respond(@, 200, "")]
    /\ UNCHANGED <<users, items, reviews, next_id, now, call, session>>

\* File::create("static/images/items/" + new_locator) and write_all(&new_image)
item_edit_handler_create_file(p) ==
    /\ req[p].op = "item_edit_handler" /\ req[p].pc = "create_file"
    /\ files' = FileWritten("items", req[p].new_name.v, req[p].image.v)
    /\ req' = [req EXCEPT ![p] = Respond(@, 200, "")]
    /\ UNCHANGED <<users, items, reviews, next_id, now, call, session>>

\* logout_handler: session.destroy()
logout_handler(p, s) ==
    /\ ReqFree(p)
    /\ session' = [session EXCEPT ![s] = None]
    /\ req' = [req EXCEPT ![p] =
                  Respond([NoReq EXCEPT !.op = "logout_handler", !.s = s], 200, "")]
    /\ UNCHANGED <<users, items, reviews, next_id, now, call, files>>

----------------------------------------------------------------------------
(* SpecItemAuth: two clients log in, as the administrator or as a user,    *)
(* and send requests to the item handlers.                                 *)

\* The administrator eve, the user bob, and the item m1 with its image and
\* a review.
InitItemAuth ==
    /\ users = {UserRow(1, eve, TRUE), UserRow(2, bob, FALSE)}
    /\ items = {ItemRow(1, m1)}
    /\ reviews = {[item_id |-> 1, user_id |-> 2, rating |-> 7, date |-> 0]}
    /\ next_id = [users |-> 3, items |-> MaxItems + 1]
    /\ now = 0
    /\ call = Idle
    /\ prev = Idle
    /\ session = NoSessions
    /\ files = {[dir |-> "items", name |-> m1, data |-> "png1"]}
    /\ req = NoRequests

AddTitles == {None, Some(t1)}
AddImages == {NoImage, Image("png2"), NotImage}
EditImages == {NoImage, Image("png2")}

\* each task serves one client
SessionOf(p) == IF p = "p1" THEN "s1" ELSE "s2"

NextItemAuth ==
    \/ \E p \in Procs, u \in {bob, eve} :
            /\ ReqFree(p)
            /\ login_handler(p, SessionOf(p), FALSE, u, Str0ng)
            /\ UNCHANGED <<prev, req>>
    \/ \E p \in Procs, t \in AddTitles, i \in AddImages :
            item_add_handler(p, SessionOf(p), TRUE, Some(m3), t, Some(d1), i)
                /\ UNCHANGED prev
    \/ \E p \in Procs : item_add_handler_add_item(p) /\ UNCHANGED prev
    \/ \E p \in Procs : item_add_handler_create_file(p) /\ UNCHANGED prev
    \/ \E p \in Procs, i \in EditImages :
            item_edit_handler(p, SessionOf(p), FALSE, m1, Some(m3), Some(cat), Some(d1), i)
                /\ UNCHANGED prev
    \/ \E p \in Procs : item_edit_handler_edit_item(p) /\ UNCHANGED prev
    \/ \E p \in Procs : item_edit_handler_rename(p) /\ UNCHANGED prev
    \/ \E p \in Procs : item_edit_handler_create_file(p) /\ UNCHANGED prev
    \/ \E p \in Procs, h \in BOOLEAN :
            item_remove_handler(p, SessionOf(p), h, m1) /\ UNCHANGED prev
    \/ \E p \in Procs : item_remove_handler_remove_item(p) /\ UNCHANGED prev
    \/ \E p \in Procs : item_remove_handler_remove_file(p) /\ UNCHANGED prev

SpecItemAuth == InitItemAuth /\ [][NextItemAuth]_vars

ItemHandlers == {"item_add_handler", "item_edit_handler", "item_remove_handler"}

\* the session holds a user whose is_admin is true
AdminSession(s) == session[s] # None /\ session[s].v.is_admin

\* C18: a request to item_add_handler, item_edit_handler or
\* item_remove_handler from a session without a user, or with a user who
\* is no administrator, is answered FORBIDDEN and changes neither the
\* items, nor the reviews, nor the image files; whatever changes them is a
\* step of an item handler's request that began in an administrator's
\* session.
C18_ItemMutationNeedsAdmin ==
    [][/\ \A p \in Procs :
            ( /\ ~ AdminSession(SessionOf(p))
              /\ \/ \E t \in AddTitles, i \in AddImages :
                        item_add_handler(p, SessionOf(p), TRUE, Some(m3), t, Some(d1), i)
                 \/ \E i \in EditImages :
                        item_edit_handler(p, SessionOf(p), FALSE, m1, Some(m3), Some(cat),
                                          Some(d1), i)
                 \/ \E h \in BOOLEAN : item_remove_handler(p, SessionOf(p), h, m1) )
            => /\ req'[p].pc = "done" /\ req'[p].status = 403
               /\ UNCHANGED <<items, reviews, files>>
       /\ <<items, reviews, files>> # <<items', reviews', files'>>
            => \E p \in Procs :
                    /\ req[p].op \in ItemHandlers
                    /\ req[p].pc # "done"
                    /\ req[p].user # None /\ req[p].user.v.is_admin
                    /\ req'[p] # req[p]]_vars

\* the user bob was answered FORBIDDEN when he asked to remove m1, which is
\* there with its image and its review, while the administrator added m3
C18_Witness ==
    /\ req["p1"].op = "item_remove_handler" /\ req["p1"].pc = "done"
    /\ req["p1"].status = 403
    /\ req["p1"].user # None /\ req["p1"].user.v.username = bob
    /\ ~ req["p1"].user.v.is_admin
    /\ req["p2"].op = "item_add_handler" /\ req["p2"].status = 200
    /\ req["p2"].message = ""
    /\ ItemRow(1, m1) \in items
    /\ \E i \in items : i.locator = m3
    /\ ItemFile(m1) # {} /\ ItemFile(m3) # {}
    /\ reviews # {}

----------------------------------------------------------------------------
(* The user handlers of main.rs.                                           *)

\* get_user: the user of that name, None when there is no such row
GetUser(username) ==
    IF \E u \in users : u.username = username
    THEN LET row == CHOOSE u \in users : u.username = username
         IN  Some([username |-> row.username, is_admin |-> row.is_admin,
                   avatar_hue |-> row.avatar_hue, has_avatar |-> row.has_avatar])
    ELSE None

AvatarFile(username) == {f \in files : f.dir = "avatars" /\ f.name = username}

\* the session holds a user who may edit or remove the user of the path
MayActOn(user, username) ==
    user.some /\ (user.v.is_admin \/ user.v.username = username)

user_remove_handler(p, s, is_htmx, username) ==
    LET user == session[s]
        r == [NoReq EXCEPT !.op = "user_remove_handler", !.s = s, !.user = user,
                           !.is_htmx = is_htmx, !.path = username]
    IN  /\ ReqFree(p)
        /\ req' = [req EXCEPT ![p] =
                      IF ~ user.some
                      THEN Respond(r, 403, "")
                      ELSE IF ~ user.v.is_admin /\ user.v.username # username
                      THEN Respond(r, 403, "")
                      ELSE [r EXCEPT !.pc = "get_user"]]
        /\ UNCHANGED <<users, items, reviews, next_id, now, call, session, files>>

\* the lookup of the page's user and the check of its is_admin
user_remove_handler_get_user(p) ==
    LET page_user == GetUser(req[p].path)
    IN  /\ req[p].op = "user_remove_handler" /\ req[p].pc = "get_user"
        /\ req' = [req EXCEPT ![p] =
                      IF ~ page_user.some
                      THEN Respond(@, 500, "")
                      ELSE IF page_user.v.is_admin
                      THEN Respond([@ EXCEPT !.page_user = page_user], 403, "")
                      ELSE [@ EXCEPT !.page_user = page_user, !.pc = "remove_user"]]
        /\ UNCHANGED <<users, items, reviews, next_id, now, call, session, files>>

\* the DELETE, and session.destroy() when the user removed themselves
user_remove_handler_remove_user(p) ==
    /\ req[p].op = "user_remove_handler" /\ req[p].pc = "remove_user"
    /\ remove_user(p, req[p].path)
    /\ session' = IF req[p].user.v.username = req[p].page_user.v.username
                  THEN [session EXCEPT ![req[p].s] = None]
                  ELSE session
    /\ req' = [req EXCEPT ![p].pc = "remove_file"]
    /\ UNCHANGED files

\* the avatar is removed if there is one
user_remove_handler_remove_file(p) ==
    /\ req[p].op = "user_remove_handler" /\ req[p].pc = "remove_file"
    /\ files' = files \ AvatarFile(req[p].path)
    /\ req' = [req EXCEPT ![p] = Respond(@, 200, "")]
    /\ UNCHANGED <<users, items, reviews, next_id, now, call, session>>

\* the guard lets every logged-in user through
user_edit_handler_AnyUser(p, s, is_htmx, username, new_username, new_avatar, clear_avatar, new_password1, new_password2) ==
    LET user == session[s]
        r == [NoReq EXCEPT !.op = "user_edit_handler", !.s = s, !.user = user,
                           !.is_htmx = is_htmx, !.path = username,
                           !.new_name = new_username, !.image = new_avatar,
                           !.clear_avatar = clear_avatar,
                           !.password1 = new_password1, !.password2 = new_password2]
    IN  /\ ReqFree(p)
        /\ req' = [req EXCEPT ![p] =
                      IF ~ user.some
                      THEN Respond(r, 403, "")
                      ELSE IF new_avatar.some /\ ~ new_avatar.is_image
                      THEN ErrorAnswer(r, "NotValidImage", 422)
                      ELSE IF ~ new_username.some
                      THEN ErrorAnswer(r, "EmptyFields", 422)
                      ELSE [r EXCEPT !.pc = "edit_user"]]
        /\ UNCHANGED <<users, items, reviews, next_id, now, call, session, files>>

user_edit_handler(p, s, is_htmx, username, new_username, new_avatar, clear_avatar, new_password1, new_password2) ==
    LET user == session[s]
        r == [NoReq EXCEPT !.op = "user_edit_handler", !.s = s, !.user = user,
                           !.is_htmx = is_htmx, !.path = username,
                           !.new_name = new_username, !.image = new_avatar,
                           !.clear_avatar = clear_avatar,
                           !.password1 = new_password1, !.password2 = new_password2]
    IN  /\ ReqFree(p)
        /\ req' = [req EXCEPT ![p] =
                      IF ~ user.some
                      THEN Respond(r, 403, "")
                      ELSE IF ~ user.v.is_admin /\ user.v.username # username
                      THEN Respond(r, 403, "")
                      ELSE IF new_avatar.some /\ ~ new_avatar.is_image
                      THEN ErrorAnswer(r, "NotValidImage", 422)
                      ELSE IF ~ new_username.some
                      THEN ErrorAnswer(r, "EmptyFields", 422)
                      ELSE [r EXCEPT !.pc = "edit_user"]]
        /\ UNCHANGED <<users, items, reviews, next_id, now, call, session, files>>

user_edit_handler_edit_user(p) ==
    LET has_avatar == IF ~ req[p].image.some /\ req[p].clear_avatar
                      THEN Some(FALSE)
                      ELSE IF req[p].image.some THEN Some(TRUE) ELSE None
    IN  /\ req[p].op = "user_edit_handler" /\ req[p].pc = "edit_user"
        /\ edit_user(p, req[p].path, req[p].new_name, has_avatar,
                     req[p].password1, req[p].password2)
        /\ req' = [req EXCEPT ![p] =
                      IF call'[p].result = "Ok"
                      THEN [@ EXCEPT !.pc = "avatar"]
                      ELSE ErrorAnswer(@, call'[p].result, 401)]
        /\ UNCHANGED <<session, files>>

\* the avatar file is removed on clear_avatar, renamed with the user, and
\* written when a new one was sent
user_edit_handler_avatar(p) ==
    LET username == req[p].path
        new_username == req[p].new_name.v
        cleared == IF req[p].clear_avatar
                   THEN {f \in files : ~ (f.dir = "avatars" /\ f.name = username)}
                   ELSE files
        had == \E f \in cleared : f.dir = "avatars" /\ f.name = username
        renamed ==
            IF had
            THEN {f \in cleared : ~ (f.dir = "avatars" /\ f.name \in {username, new_username})}
                    \cup {[dir |-> "avatars", name |-> new_username, data |-> f.data] :
                            f \in {g \in cleared : g.dir = "avatars" /\ g.name = username}}
            ELSE cleared
        written ==
            IF req[p].image.some
            THEN {f \in renamed : ~ (f.dir = "avatars" /\ f.name = new_username)}
                    \cup {[dir |-> "avatars", name |-> new_username,
                           data |-> req[p].image.v]}
            ELSE renamed
    IN  /\ req[p].op = "user_edit_handler" /\ req[p].pc = "avatar"
        /\ files' = written
        /\ req' = [req EXCEPT ![p] =
                      IF req[p].user.v.username = username
                      THEN [@ EXCEPT !.pc = "session_set"]
                      ELSE Respond(@, 200, "")]
        /\ UNCHANGED <<users, items, reviews, next_id, now, call, session>>

\* session.set("user", get_user(new_username)) after an edit of oneself
user_edit_handler_session_set(p) ==
    /\ req[p].op = "user_edit_handler" /\ req[p].pc = "session_set"
    /\ session' = [session EXCEPT ![req[p].s] = GetUser(req[p].new_name.v)]
    /\ req' = [req EXCEPT ![p] = Respond(@, 200, "")]
    /\ UNCHANGED <<users, items, reviews, next_id, now, call, files>>

----------------------------------------------------------------------------
(* SpecUserAuth: two clients log in, as the administrator or as a user,    *)
(* and send requests to the user handlers.                                 *)

InitUserAuth ==
    /\ users = {UserRow(1, eve, TRUE), UserRow(2, bob, FALSE)}
    /\ items = {ItemRow(1, m1)}
    /\ reviews = {[item_id |-> 1, user_id |-> 1, rating |-> 9, date |-> 0],
                  [item_id |-> 1, user_id |-> 2, rating |-> 7, date |-> 0]}
    /\ next_id = [users |-> 3, items |-> 2]
    /\ now = 0
    /\ call = Idle
    /\ prev = Idle
    /\ session = NoSessions
    /\ files = {}
    /\ req = NoRequests

PathUsers == {bob, eve}
FormUsernames == {Some(bob), Some(zed)}
\* the first client logs in as either account, the second as the administrator
LoginAs(p) == IF p = "p1" THEN {bob, eve} ELSE {eve}

NextUserAuth ==
    \/ \E p \in Procs : \E u \in LoginAs(p) :
            /\ ReqFree(p)
            /\ login_handler(p, SessionOf(p), FALSE, u, Str0ng)
            /\ UNCHANGED <<prev, req>>
    \/ \E p \in Procs, u \in PathUsers, n \in FormUsernames :
            user_edit_handler(p, SessionOf(p), FALSE, u, n, NoImage, FALSE, None, None)
                /\ UNCHANGED prev
    \/ \E p \in Procs : user_edit_handler_edit_user(p) /\ UNCHANGED prev
    \/ \E p \in Procs : user_edit_handler_avatar(p) /\ UNCHANGED prev
    \/ \E p \in Procs : user_edit_handler_session_set(p) /\ UNCHANGED prev
    \/ \E p \in Procs, u \in PathUsers :
            user_remove_handler(p, SessionOf(p), FALSE, u) /\ UNCHANGED prev
    \/ \E p \in Procs : user_remove_handler_get_user(p) /\ UNCHANGED prev
    \/ \E p \in Procs : user_remove_handler_remove_user(p) /\ UNCHANGED prev
    \/ \E p \in Procs : user_remove_handler_remove_file(p) /\ UNCHANGED prev

SpecUserAuth == InitUserAuth /\ [][NextUserAuth]_vars

UserHandlers == {"user_edit_handler", "user_remove_handler"}

\* the reviews written by the users of that name
ReviewsByName(username) ==
    {r \in reviews : \E u \in users : u.username = username /\ u.id = r.user_id}

\* C19: a request to user_edit_handler or user_remove_handler from a
\* session without a user, or with a user who is no administrator and is
\* not the user named in the path, is answered FORBIDDEN and changes neither
\* users nor reviews; whatever changes them is a step of a user handler's
\* request whose session user was the user of the path or an administrator,
\* and it changes only the row of that name and its reviews.
C19_UserMutationNeedsSelfOrAdmin ==
    [][/\ \A p \in Procs, u \in PathUsers :
            ( /\ ~ MayActOn(session[SessionOf(p)], u)
              /\ \/ \E n \in FormUsernames :
                        user_edit_handler(p, SessionOf(p), FALSE, u, n, NoImage, FALSE,
                                          None, None)
                 \/ user_remove_handler(p, SessionOf(p), FALSE, u) )
            => /\ req'[p].pc = "done" /\ req'[p].status = 403
               /\ UNCHANGED <<users, reviews>>
       /\ <<users, reviews>> # <<users', reviews'>>
            => \E p \in Procs :
                    /\ req[p].op \in UserHandlers
                    /\ req[p].pc # "done"
                    /\ req'[p] # req[p]
                    /\ MayActOn(req[p].user, req[p].path)
                    /\ \A r \in users : r.username # req[p].path => r \in users'
                    /\ reviews \ ReviewsByName(req[p].path) \subseteq reviews']_vars

\* bob was answered FORBIDDEN when he asked to edit eve, and the
\* administrator renamed bob to zed
C19_Witness ==
    /\ req["p1"].op = "user_edit_handler" /\ req["p1"].pc = "done"
    /\ req["p1"].status = 403
    /\ req["p1"].user # None /\ req["p1"].user.v.username = bob
    /\ req["p1"].path = eve
    /\ req["p2"].op = "user_edit_handler" /\ req["p2"].pc = "done"
    /\ req["p2"].status = 200
    /\ req["p2"].user.v.is_admin /\ req["p2"].path = bob
    /\ \E r \in users : r.id = 2 /\ r.username = zed
    /\ \E r \in users : r.id = 1 /\ r.username = eve


\* C20: no step of user_remove_handler deletes a user row whose is_admin is
\* true, whatever requests run between the handler's lookup of the page's
\* user and its DELETE.
C20_NoAdminRemoved ==
    [][\A p \in Procs :
            ( /\ req[p].op = "user_remove_handler" /\ req[p].pc = "remove_user"
              /\ user_remove_handler_remove_user(p) )
            => \A u \in users : u.is_admin => \E v \in users' : v.id = u.id]_vars

----------------------------------------------------------------------------
(* The review handlers of main.rs.                                         *)

\* a request without a session user is rated as the user without a name
review_add_handler_Anonymous(p, s, is_htmx, locator, score) ==
    LET user == IF session[s].some THEN session[s] ELSE Some(NoUser)
        r == [NoReq EXCEPT !.op = "review_add_handler", !.s = s, !.user = session[s],
                           !.is_htmx = is_htmx, !.path = locator]
    IN  /\ ReqFree(p)
        /\ rate_item_insert(p, user.v.username, locator, score)
        /\ req' = [req EXCEPT ![p] =
                      IF call'[p].pc = "update"
                      THEN [r EXCEPT !.pc = "rate_item_update"]
                      ELSE IF call'[p].result = "Ok"
                      THEN Respond(r, 200, "")
                      ELSE Panicked(r)]
        /\ UNCHANGED <<session, files>>

\* the session check and the INSERT of rate_item; unwrap() panics on an Err
review_add_handler(p, s, is_htmx, locator, score) ==
    LET user == session[s]
        r == [NoReq EXCEPT !.op = "review_add_handler", !.s = s, !.user = user,
                           !.is_htmx = is_htmx, !.path = locator]
    IN  /\ ReqFree(p)
        /\ IF ~ user.some
           THEN /\ req' = [req EXCEPT ![p] = Respond(r, 401, "")]
                /\ UNCHANGED <<users, items, reviews, next_id, now, call>>
           ELSE /\ rate_item_insert(p, user.v.username, locator, score)
                /\ req' = [req EXCEPT ![p] =
                              IF call'[p].pc = "update"
                              THEN [r EXCEPT !.pc = "rate_item_update"]
                              ELSE IF call'[p].result = "Ok"
                              THEN Respond(r, 200, "")
                              ELSE Panicked(r)]
        /\ UNCHANGED <<session, files>>

\* the fallback UPDATE of rate_item
review_add_handler_rate_item_update(p) ==
    /\ req[p].op = "review_add_handler" /\ req[p].pc = "rate_item_update"
    /\ rate_item_update(p)
    /\ req' = [req EXCEPT ![p] = Respond(@, 200, "")]
    /\ UNCHANGED <<session, files>>

review_remove_handler(p, s, is_htmx, locator) ==
    LET user == session[s]
        r == [NoReq EXCEPT !.op = "review_remove_handler", !.s = s, !.user = user,
                           !.is_htmx = is_htmx, !.path = locator]
    IN  /\ ReqFree(p)
        /\ IF ~ user.some
           THEN /\ req' = [req EXCEPT ![p] = Respond(r, 401, "")]
                /\ UNCHANGED <<users, items, reviews, next_id, now, call>>
           ELSE /\ remove_review(p, locator, user.v.username)
                /\ req' = [req EXCEPT ![p] = Respond(r, 200, "")]
        /\ UNCHANGED <<session, files>>

----------------------------------------------------------------------------
(* SpecReview: two clients log in, rate and un-rate two items,             *)
(* while users are renamed.                                                *)

InitReview ==
    /\ users = {UserRow(1, eve, TRUE), UserRow(2, bob, FALSE)}
    /\ items = {ItemRow(1, m1), ItemRow(2, m2)}
    /\ reviews = {[item_id |-> 1, user_id |-> 1, rating |-> 9, date |-> 0],
                  [item_id |-> 2, user_id |-> 2, rating |-> 3, date |-> 0]}
    /\ next_id = [users |-> 3, items |-> 3]
    /\ now = 0
    /\ call = Idle
    /\ prev = Idle
    /\ session = NoSessions
    /\ files = {}
    /\ req = NoRequests

Scores == {7}
\* the first client rates both items, the second the first item
RatedItems(p) == IF p = "p1" THEN {m1, m2} ELSE {m1}
\* bob becomes zed, and eve then takes the name bob
Renames == {<<bob, zed>>, <<eve, bob>>}

NextReview ==
    \/ \E p \in Procs : \E u \in LoginAs(p) :
            /\ ReqFree(p)
            /\ login_handler(p, SessionOf(p), FALSE, u, Str0ng)
            /\ UNCHANGED <<prev, req>>
    \/ \E p \in Procs, score \in Scores : \E l \in RatedItems(p) :
            review_add_handler(p, SessionOf(p), FALSE, l, score) /\ UNCHANGED prev
    \/ \E p \in Procs : review_add_handler_rate_item_update(p) /\ UNCHANGED prev
    \/ \E p \in Procs : \E l \in RatedItems(p) :
            review_remove_handler(p, SessionOf(p), FALSE, l) /\ UNCHANGED prev
    \/ \E n \in Renames :
            /\ ReqFree("p2")
            /\ edit_user("p2", n[1], Some(n[2]), None, None, None)
            /\ UNCHANGED <<prev, web>>

SpecReview == InitReview /\ [][NextReview]_vars

ReviewHandlers == {"review_add_handler", "review_remove_handler"}

\* a step of a review handler's request in task p
ReviewStep(p) ==
    \/ \E l \in RatedItems(p), score \in Scores :
            review_add_handler(p, SessionOf(p), FALSE, l, score)
    \/ review_add_handler_rate_item_update(p)
    \/ \E l \in RatedItems(p) : review_remove_handler(p, SessionOf(p), FALSE, l)

\* C21: review_add_handler and review_remove_handler answer UNAUTHORIZED
\* and change nothing in the store when the session holds no user; every
\* review row that a step creates, changes or deletes is the row of the
\* item of the path and the user of the session's username, by a step of a
\* review handler's request.
C21_OnlyOwnReview ==
    [][/\ \A p \in Procs : \A l \in RatedItems(p) :
            ( /\ ~ session[SessionOf(p)].some
              /\ \/ \E score \in Scores :
                        review_add_handler(p, SessionOf(p), FALSE, l, score)
                 \/ review_remove_handler(p, SessionOf(p), FALSE, l) )
            => /\ req'[p].pc = "done" /\ req'[p].status = 401
               /\ UNCHANGED <<users, items, reviews>>
       /\ reviews # reviews'
            => \E p \in Procs :
                    /\ req'[p].op \in ReviewHandlers
                    /\ req'[p].user.some
                    /\ ReviewStep(p)
                    /\ \A r \in (reviews \ reviews') \cup (reviews' \ reviews) :
                            /\ r.item_id = ItemIdOf(req'[p].path)
                            /\ r.user_id = UserIdOf(req'[p].user.v.username)]_vars

\* bob rated m1 while eve's review of m1 and bob's review of m2 stayed as
\* they were, and a request without a session user was answered
\* UNAUTHORIZED
C21_Witness ==
    /\ req["p1"].op = "review_add_handler" /\ req["p1"].pc = "done"
    /\ req["p1"].status = 200
    /\ req["p1"].user.some /\ req["p1"].user.v.username = bob
    /\ req["p1"].path = m1
    /\ call["p1"].op = "rate_item" /\ call["p1"].rating = 7
    /\ [item_id |-> 1, user_id |-> 2, rating |-> 7, date |-> 0] \in reviews
    /\ [item_id |-> 1, user_id |-> 1, rating |-> 9, date |-> 0] \in reviews
    /\ [item_id |-> 2, user_id |-> 2, rating |-> 3, date |-> 0] \in reviews
    /\ req["p2"].op = "review_remove_handler" /\ req["p2"].status = 401

----------------------------------------------------------------------------
(* SpecCascade: two tasks rate, un-rate, add and remove items and users.   *)

InitCascade ==
    /\ users = {UserRow(1, eve, TRUE), UserRow(2, bob, FALSE)}
    /\ items = {ItemRow(1, m1), ItemRow(2, m2)}
    /\ reviews = {[item_id |-> 1, user_id |-> 1, rating |-> 9, date |-> 0],
                  [item_id |-> 2, user_id |-> 2, rating |-> 3, date |-> 0]}
    /\ next_id = [users |-> MaxId, items |-> MaxItems + 1]
    /\ now = 0
    /\ call = Idle
    /\ prev = Idle
    /\ session = NoSessions
    /\ files = {}
    /\ req = NoRequests

NextCascade ==
    \/ \E u \in {bob, eve}, l \in {m1, m2} :
            rate_item_insert("p1", u, l, 7) /\ UNCHANGED <<prev, web>>
    \/ rate_item_update("p1") /\ UNCHANGED <<prev, web>>
    \/ \E u \in {bob, eve}, l \in {m1, m2} :
            remove_review("p1", l, u) /\ UNCHANGED <<prev, web>>
    \/ \E l \in {m1, m2} : remove_item("p2", l) /\ UNCHANGED <<prev, web>>
    \/ \E u \in {bob, eve} : remove_user("p2", u) /\ UNCHANGED <<prev, web>>
    \/ add_item("p2", m1, t1, d1) /\ UNCHANGED <<prev, web>>
    \/ register_user_insert("p2", bob, Str0ng, Str0ng) /\ UNCHANGED <<prev, web>>
    \/ register_user_login("p2") /\ UNCHANGED <<prev, web>>

SpecCascade == InitCascade /\ [][NextCascade]_vars

\* every review refers to an item and to a user that exist
ReferentialIntegrity ==
    \A r \in reviews : /\ \E i \in items : i.id = r.item_id
                       /\ \E u \in users : u.id = r.user_id

\* C22: every review refers to an item and a user that exist; a
\* remove_item(l) step leaves no review of l and keeps every review of
\* another item, and a remove_user(u) step leaves no review by u and keeps
\* every review by another user.
C22_CascadeIntegrity ==
    /\ [] ReferentialIntegrity
    /\ [][/\ \A p \in Procs, l \in {m1, m2} :
                ( call'[p].op = "remove_item" /\ remove_item(p, l) )
                => /\ ~ \E i \in items' : i.locator = l
                   /\ \A r \in reviews :
                        IF r.item_id = ItemIdOf(l) THEN r \notin reviews'
                                                   ELSE r \in reviews'
                   /\ reviews' \subseteq reviews
          /\ \A p \in Procs, u \in {bob, eve} :
                ( call'[p].op = "remove_user" /\ remove_user(p, u) )
                => /\ ~ \E v \in users' : v.username = u
                   /\ \A r \in reviews :
                        IF r.user_id = UserIdOf(u) THEN r \notin reviews'
                                                   ELSE r \in reviews'
                   /\ reviews' \subseteq reviews]_vars

\* m1 was removed with its two reviews while the reviews of m2 stayed
C22_Witness ==
    /\ call["p2"].op = "remove_item" /\ call["p2"].pc = "done"
    /\ ~ \E i \in items : i.locator = m1
    /\ \E i \in items : i.id = 2 /\ i.locator = m2
    /\ reviews = {[item_id |-> 2, user_id |-> 2, rating |-> 3, date |-> 0],
                  [item_id |-> 2, user_id |-> 1, rating |-> 7, date |-> 0]}
    /\ call["p1"].op = "rate_item" /\ call["p1"].locator = m1
    /\ call["p1"].username = bob /\ call["p1"].result = "Ok"

----------------------------------------------------------------------------
(* get_item, and SpecSeqAgg: one task rates, un-rates and reads the        *)
(* aggregates, call after call.                                            *)

\* the row is read from items, with every review in the store counted
get_item_CountsAll(p, locator) ==
    LET rows == {i \in items : i.locator = locator}
        item == IF rows = {} THEN None
                ELSE Some([locator |-> locator,
                           title |-> (CHOOSE i \in rows : TRUE).title,
                           description |-> (CHOOSE i \in rows : TRUE).description,
                           score |-> 0, review_count |-> Cardinality(reviews),
                           rank |-> 1, popularity |-> 1])
    IN  /\ Free(p)
        /\ call' = [call EXCEPT ![p] =
                        [NoCall EXCEPT !.op = "get_item", !.pc = "done",
                                       !.locator = locator, !.result = "Ok",
                                       !.item = item]]
        /\ UNCHANGED <<users, items, reviews, next_id, now>>

\* SELECT ... FROM items_score WHERE locator = $1 LIMIT 1
get_item(p, locator) ==
    LET rows == {i \in ItemsScore : i.locator = locator}
        item == IF rows = {} THEN None ELSE Some(Item(CHOOSE i \in rows : TRUE))
    IN  /\ Free(p)
        /\ call' = [call EXCEPT ![p] =
                        [NoCall EXCEPT !.op = "get_item", !.pc = "done",
                                       !.locator = locator, !.result = "Ok",
                                       !.item = item]]
        /\ UNCHANGED <<users, items, reviews, next_id, now>>

InitAgg ==
    /\ users = {UserRow(1, eve, TRUE), UserRow(2, bob, FALSE), UserRow(3, zed, FALSE)}
    /\ items = {ItemRow(1, m1), ItemRow(2, m2)}
    /\ reviews = {}
    /\ next_id = [users |-> 4, items |-> 3]
    /\ now = 0
    /\ call = Idle
    /\ prev = Idle
    /\ session = NoSessions
    /\ files = {}
    /\ req = NoRequests

\* who rates what: m1 by everybody with 10 or 8, m2 by bob with 8
Ratings ==
    {<<u, m1, r>> : u \in {bob, eve, zed}, r \in {8, 10}} \cup {<<bob, m2, 8>>}

NextSeqAgg ==
    \/ \E x \in Ratings :
            rate_item_insert("p1", x[1], x[2], x[3]) /\ Starts("p1") /\ UNCHANGED web
    \/ rate_item_update("p1") /\ UNCHANGED <<prev, web>>
    \/ \E u \in {bob, zed} : remove_review("p1", m1, u) /\ Starts("p1") /\ UNCHANGED web
    \/ \E l \in {m1, m2, m3} : get_item("p1", l) /\ Starts("p1") /\ UNCHANGED web
    \/ get_items_count("p1", None, None) /\ Starts("p1") /\ UNCHANGED web
    \/ get_items_page("p1") /\ UNCHANGED <<prev, web>>
    \/ \E u \in {bob, eve} :
            get_user_ratings_count("p1", None, u) /\ Starts("p1") /\ UNCHANGED web
    \/ get_user_ratings_page("p1") /\ UNCHANGED <<prev, web>>

SpecSeqAgg == InitAgg /\ [][NextSeqAgg]_vars

\* the items, with their aggregates, that a finished read reported
ItemsIn(c) ==
    IF c.pc # "done" THEN {}
    ELSE IF c.op = "get_item" /\ c.item.some THEN {c.item.v}
    ELSE IF c.op = "get_items" /\ c.page.some THEN c.page.items
    ELSE IF c.op = "get_user_ratings" /\ c.page.some
    THEN {e.item : e \in c.page.items}
    ELSE {}

ReadOps == {"get_item", "get_items", "get_user_ratings"}

\* C23: with no write under way, every item that get_item, get_items or
\* get_user_ratings reports has as review_count the number of review rows
\* of that item, and two reads that follow each other report the same
\* score, review_count, rank and popularity for the same item.
C23_AggregatesAgree ==
    /\ \A a \in ItemsIn(call["p1"]) :
            a.review_count = Cardinality({r \in reviews : r.item_id = ItemIdOf(a.locator)})
    /\ (call["p1"].op \in ReadOps /\ prev["p1"].op \in ReadOps)
        => \A a \in ItemsIn(call["p1"]), b \in ItemsIn(prev["p1"]) :
                a.locator = b.locator => a = b

\* two of the three users have a review of m1: get_item reported
\* review_count 2 and the mean 9.00, and get_user_ratings, called next,
\* reports the same item
C23_Witness ==
    /\ call["p1"].op = "get_user_ratings" /\ call["p1"].pc = "done"
    /\ prev["p1"].op = "get_item" /\ prev["p1"].item.some
    /\ prev["p1"].item.v.locator = m1
    /\ prev["p1"].item.v.review_count = 2
    /\ prev["p1"].item.v.score = 900
    /\ prev["p1"].item.v \in ItemsIn(call["p1"])
    /\ Cardinality(call["p1"].page.items) = 2
    /\ reviews = {[item_id |-> 1, user_id |-> 1, rating |-> 10, date |-> 0],
                  [item_id |-> 1, user_id |-> 2, rating |-> 8, date |-> 0],
                  [item_id |-> 2, user_id |-> 2, rating |-> 8, date |-> 0]}

----------------------------------------------------------------------------
(* SpecSeqHist: one task re-rates items and reads the rating histories,    *)
(* call after call, while the clock runs.                                  *)

ann == <<"a">>
m4 == <<"m", "4">>

\* m1 has a review by each of four users, bob a review of each of four items
InitHist ==
    /\ users = {UserRow(1, eve, TRUE), UserRow(2, bob, FALSE), UserRow(3, zed, FALSE),
                UserRow(4, ann, FALSE)}
    /\ items = {ItemRow(1, m1), ItemRow(2, m2), ItemRow(3, m3), ItemRow(4, m4)}
    /\ reviews = {[item_id |-> 1, user_id |-> u, rating |-> 9, date |-> 0] : u \in 1..4}
                    \cup {[item_id |-> i, user_id |-> 2, rating |-> 3, date |-> 0] : i \in 2..4}
    /\ next_id = [users |-> 5, items |-> 5]
    /\ now = 0
    /\ call = Idle
    /\ prev = Idle
    /\ session = NoSessions
    /\ files = {}
    /\ req = NoRequests

NextSeqHist ==
    \/ \E u \in {bob, eve}, l \in {m1, m2} :
            rate_item_insert("p1", u, l, 5) /\ Starts("p1") /\ UNCHANGED web
    \/ rate_item_update("p1") /\ UNCHANGED <<prev, web>>
    \/ remove_review("p1", m1, zed) /\ Starts("p1") /\ UNCHANGED web
    \/ \E n \in {None, Some(1)} :
            get_item_ratings_count("p1", n, m1) /\ Starts("p1") /\ UNCHANGED web
    \/ get_item_ratings_page("p1") /\ UNCHANGED <<prev, web>>
    \/ \E n \in {None, Some(1)} :
            get_user_ratings_count("p1", n, bob) /\ Starts("p1") /\ UNCHANGED web
    \/ get_user_ratings_page("p1") /\ UNCHANGED <<prev, web>>
    \/ Tick /\ UNCHANGED <<prev, web>>

SpecSeqHist == InitHist /\ [][NextSeqHist]_vars

\* the reviews among rs that are more recent than every other one of rs
MostRecent(rs) == {r \in rs : \A q \in rs \ {r} : q.date < r.date}

\* C24: the fallback UPDATE of a re-rate sets the review's date to the time
\* of the re-rate, which no review's date exceeds; and page 0 of
\* get_item_ratings and of get_user_ratings holds the review that is more
\* recent than every other one of the item, or of the user, with no entry
\* of the page more recent than it.
C24_RerateComesFirst ==
    [][/\ ( call'["p1"].op = "rate_item" /\ rate_item_update("p1") )
            => /\ \A r \in reviews' : r.date <= now
               /\ \A r \in PairRows(call["p1"].locator, call["p1"].username) :
                        \E q \in reviews' :
                            /\ q.item_id = r.item_id /\ q.user_id = r.user_id
                            /\ q.date = now /\ q.rating = call["p1"].rating
       /\ ( /\ call'["p1"].op = "get_item_ratings"
            /\ get_item_ratings_page("p1")
            /\ call["p1"].page_number = 0 )
            => \A r \in MostRecent({r \in reviews : r.item_id = ItemIdOf(call["p1"].locator)}) :
                /\ \E e \in call'["p1"].page.items :
                        /\ e.date = r.date /\ e.rating = r.rating
                        /\ e.user.username = (CHOOSE u \in users : u.id = r.user_id).username
                /\ \A e \in call'["p1"].page.items : e.date <= r.date
       /\ ( /\ call'["p1"].op = "get_user_ratings"
            /\ get_user_ratings_page("p1")
            /\ call["p1"].page_number = 0 )
            => \A r \in MostRecent({r \in reviews : r.user_id = UserIdOf(call["p1"].username)}) :
                /\ \E e \in call'["p1"].page.items :
                        /\ e.date = r.date /\ e.rating = r.rating
                        /\ e.item.locator = (CHOOSE i \in items : i.id = r.item_id).locator
                /\ \A e \in call'["p1"].page.items : e.date <= r.date]_vars

\* bob re-rated m1 at time 1; of the four reviews of m1 and the four reviews
\* by bob, his review of m1 is in page 0 of both histories, ahead of the
\* two older entries next to it
C24_Witness ==
    /\ now = 1
    /\ [item_id |-> 1, user_id |-> 2, rating |-> 5, date |-> 1] \in reviews
    /\ Cardinality({r \in reviews : r.item_id = 1}) = 4
    /\ Cardinality({r \in reviews : r.user_id = 2}) = 4
    /\ \A r \in reviews : r.date = 1 => (r.item_id = 1 /\ r.user_id = 2)
    /\ prev["p1"].op = "get_item_ratings" /\ prev["p1"].page.some
    /\ prev["p1"].page.current_page = 0
    /\ Cardinality(prev["p1"].page.items) = 3
    /\ \E e \in prev["p1"].page.items :
            e.user.username = bob /\ e.rating = 5 /\ e.date = 1
    /\ call["p1"].op = "get_user_ratings" /\ call["p1"].page.some
    /\ call["p1"].page.current_page = 0
    /\ Cardinality(call["p1"].page.items) = 3
    /\ \E e \in call["p1"].page.items :
            e.item.locator = m1 /\ e.rating = 5 /\ e.date = 1

----------------------------------------------------------------------------
(* SpecRename: one task renames users and items while the other rates.     *)

NextRename ==
    \/ \E u \in {bob, eve, zed}, v \in {bob, zed} :
            edit_user("p1", u, Some(v), None, None, None) /\ UNCHANGED <<prev, web>>
    \/ \E l \in {m1, m2, m3}, k \in {m1, m3} :
            edit_item("p1", l, Some(k), None, None) /\ UNCHANGED <<prev, web>>
    \/ \E u \in {bob, zed}, l \in {m1, m3} :
            rate_item_insert("p2", u, l, 7) /\ UNCHANGED <<prev, web>>
    \/ rate_item_update("p2") /\ UNCHANGED <<prev, web>>
    \/ Tick /\ UNCHANGED <<prev, web>>

SpecRename == InitReview /\ [][NextRename]_vars

RenameLocators == {m1, m2, m3}
RenameUsers == {bob, eve, zed}

\* what is read of user v after the step is what was read of user u before
\* it, and nothing is read of u
UserCarried(u, v) ==
    /\ \A l \in RenameLocators :
            /\ GetItemRating(l, v)' = GetItemRating(l, u)
            /\ GetItemRating(l, u)' = None
    /\ UserRatingRows(v)' = UserRatingRows(u)

\* what is read of item k after the step is what was read of item l before
\* it, and nothing is read of l
ItemCarried(l, k) ==
    /\ \A u \in RenameUsers :
            /\ GetItemRating(k, u)' = GetItemRating(l, u)
            /\ GetItemRating(l, u)' = None
    /\ ItemRatingRows(k)' = ItemRatingRows(l)

\* C25 as stated: after every successful edit_user(u, new_username = v) the
\* reads of v give what the reads of u gave and get_item_rating(l, u) is
\* absent; the same for every successful edit_item(l, new_locator = k).
C25_RenameCarriesReviews_Any ==
    [][/\ \A u \in {bob, eve, zed}, v \in {bob, zed} :
            ( /\ call'["p1"].op = "edit_user" /\ call'["p1"].result = "Ok"
              /\ edit_user("p1", u, Some(v), None, None, None) )
            => UserCarried(u, v)
       /\ \A l \in {m1, m2, m3}, k \in {m1, m3} :
            ( /\ call'["p1"].op = "edit_item" /\ call'["p1"].result = "Ok"
              /\ edit_item("p1", l, Some(k), None, None) )
            => ItemCarried(l, k)]_vars

\* C25: after a successful edit_user(u, new_username = v) of an existing
\* user u to another name v, get_item_rating(l, v) is what
\* get_item_rating(l, u) was, get_item_rating(l, u) is absent, and the rows
\* of get_user_ratings(v) are those that get_user_ratings(u) had; the same
\* for a successful edit_item of an existing item to another locator.
C25_RenameCarriesReviews ==
    [][/\ \A u \in {bob, eve, zed}, v \in {bob, zed} :
            ( /\ call'["p1"].op = "edit_user" /\ call'["p1"].result = "Ok"
              /\ u # v /\ UserIdOf(u) # NULL
              /\ edit_user("p1", u, Some(v), None, None, None) )
            => UserCarried(u, v)
       /\ \A l \in {m1, m2, m3}, k \in {m1, m3} :
            ( /\ call'["p1"].op = "edit_item" /\ call'["p1"].result = "Ok"
              /\ l # k /\ ItemIdOf(l) # NULL
              /\ edit_item("p1", l, Some(k), None, None) )
            => ItemCarried(l, k)]_vars

\* bob was renamed to zed and m1 to m3: the reviews of the user with id 2
\* and of the item with id 1 are read under the new names
C25_Witness ==
    /\ call["p1"].op \in {"edit_user", "edit_item"} /\ call["p1"].result = "Ok"
    /\ UserIdOf(zed) = 2 /\ UserIdOf(bob) = NULL
    /\ ItemIdOf(m3) = 1 /\ ItemIdOf(m1) = NULL
    /\ GetItemRating(m3, zed) = Some(7)
    /\ GetItemRating(m2, zed) = Some(3)
    /\ GetItemRating(m1, bob) = None
    /\ Cardinality(UserRatingRows(zed)) = 2
    /\ Cardinality(ItemRatingRows(m3)) = 2


\* C26: a rate_item call that returns Ok has written the caller's clamped
\* rating: its INSERT added the row of the pair, or its fallback UPDATE
\* changed exactly one row, whatever ran between the failed INSERT and the
\* UPDATE.
C26_OkMeansWritten ==
    [][\A p \in Procs :
        /\ \A u \in {bob, eve}, r \in {0, 7, 11} :
            ( /\ call'[p].op = "rate_item" /\ call'[p].pc = "done"
              /\ call'[p].result = "Ok"
              /\ rate_item_insert(p, u, m1, r) )
            => /\ Cardinality(PairRows(m1, u)') = 1
               /\ \A q \in PairRows(m1, u)' : q.rating = Clamped(r) /\ q.date = now
        /\ ( /\ call[p].op = "rate_item" /\ call[p].pc = "update"
             /\ rate_item_update(p) )
            => /\ call'[p].result = "Ok"
               /\ Cardinality(PairRows(call[p].locator, call[p].username)') = 1
               /\ \A q \in PairRows(call[p].locator, call[p].username)' :
                        q.rating = Clamped(call[p].rating_in) /\ q.date = now]_vars


\* C27: whenever no request is under way, a session that holds a user
\* holds the username of a user that exists in users.
C27_SessionsNameUsers ==
    (\A p \in Procs : req[p].pc \in {"idle", "done"})
        => \A s \in Sessions :
                session[s].some => \E u \in users : u.username = session[s].v.username


\* C28: whenever no request is under way, the names of the image files of
\* the items are the locators of the items.
C28_ImagesTrackLocators ==
    (\A p \in Procs : req[p].pc \in {"idle", "done"})
        => {f.name : f \in {g \in files : g.dir = "items"}} = {i.locator : i \in items}


-----------------------------------------------------------------------------
(* Rejected writes                                                         *)

ValUsernames == {Blank, a_b, eve, zed}
ValPasswordPairs == {<<Str0ng, Str0ng>>, <<Str0ng, Weak79>>, <<Weak79, Weak79>>}
ValLocators == {Blank, a_b, m2, m3}
ValTitles == {Blank, t1}
ValNewUsernames == {None, Some(Blank), Some(a_b), Some(eve), Some(zed)}
ValNewPasswordPairs == {<<None, None>>, <<Some(Str0ng), Some(Weak79)>>, <<Some(Weak79), Some(Weak79)>>}
ValNewLocators == {None, Some(Blank), Some(a_b), Some(m2), Some(m3)}

\* Task 1 adds items and edits bob, task 2 registers users and edits m1,
\* with fields that pass and fields that fail each check.
NextValidate ==
    \/ \E u \in ValUsernames, pw \in ValPasswordPairs :
            register_user_insert("p2", u, pw[1], pw[2]) /\ UNCHANGED <<prev, web>>
    \/ register_user_login("p2") /\ UNCHANGED <<prev, web>>
    \/ \E l \in ValLocators, t \in ValTitles :
            add_item("p1", l, t, d1) /\ UNCHANGED <<prev, web>>
    \/ \E nl \in ValNewLocators :
            edit_item("p2", m1, nl, None, None) /\ UNCHANGED <<prev, web>>
    \/ \E nu \in ValNewUsernames, pw \in ValNewPasswordPairs :
            edit_user("p1", bob, nu, None, pw[1], pw[2]) /\ UNCHANGED <<prev, web>>

SpecValidate == InitItems /\ [][NextValidate]_vars

ValidationErrors ==
    {"EmptyFields", "IllegalUsername", "IllegalLocator", "PasswordsDiffer",
     "WeakPassword", "DuplicateUser", "DuplicateItem"}

\* the step of task p rejects the call with one of the errors
Rejects(p) == call'[p].pc = "done" /\ call'[p].result \in ValidationErrors

\* C29: a step in which register_user, add_item, edit_item or edit_user
\* returns EmptyFields, IllegalUsername, IllegalLocator, PasswordsDiffer,
\* WeakPassword, DuplicateUser or DuplicateItem leaves every user, item and
\* review row as it was, and no step of a register_user call that has
\* inserted its row returns one of these errors.
C29_RejectedChangesNothing ==
    [][\A p \in Procs :
          Rejects(p) =>
            /\ (\E u \in ValUsernames, pw \in ValPasswordPairs :
                    register_user_insert(p, u, pw[1], pw[2]))
                  => UNCHANGED <<users, items, reviews>>
            /\ ~ register_user_login(p)
            /\ (\E l \in ValLocators, t \in ValTitles : add_item(p, l, t, d1))
                  => UNCHANGED <<users, items, reviews>>
            /\ (\E nl \in ValNewLocators : edit_item(p, m1, nl, None, None))
                  => UNCHANGED <<users, items, reviews>>
            /\ (\E nu \in ValNewUsernames, pw \in ValNewPasswordPairs :
                    edit_user(p, bob, nu, None, pw[1], pw[2]))
                  => UNCHANGED <<users, items, reviews>>]_vars

C29_Witness ==
    /\ call["p1"] = Done("edit_user", "DuplicateItem")
    /\ call["p2"].op = "register_user" /\ call["p2"].result = "WeakPassword"
    /\ \E u \in users : u.username = zed
    /\ \E i \in items : i.locator = m3


-----------------------------------------------------------------------------
(* The page links                                                          *)

MaxPages == 8

\* the number of page links pagination asks for
DisplayedPages == 5

\* low = current_page - displayed_pages / 2, not checked
get_pagination_NoClamp(number_of_pages, current_page, displayed_pages) ==
    LET half == displayed_pages \div 2
    IN  IF number_of_pages < displayed_pages
        THEN [start |-> 0, end |-> number_of_pages, underflow |-> FALSE]
        ELSE IF number_of_pages < half
        THEN [NoRange EXCEPT !.underflow = TRUE]
        ELSE IF current_page < number_of_pages - half
        THEN IF current_page < half
             THEN [NoRange EXCEPT !.underflow = TRUE]
             ELSE [start |-> current_page - half,
                   end |-> current_page - half + displayed_pages, underflow |-> FALSE]
        ELSE [start |-> number_of_pages - displayed_pages, end |-> number_of_pages,
              underflow |-> FALSE]

\* The two plain subtractions are number_of_pages - displayed_pages / 2 and
\* number_of_pages - displayed_pages; current_page - displayed_pages / 2 is a
\* checked_sub with 0 as its default.
get_pagination(number_of_pages, current_page, displayed_pages) ==
    LET half == displayed_pages \div 2
    IN  IF number_of_pages < displayed_pages
        THEN [start |-> 0, end |-> number_of_pages, underflow |-> FALSE]
        ELSE IF number_of_pages < half
        THEN [NoRange EXCEPT !.underflow = TRUE]
        ELSE IF current_page < number_of_pages - half
        THEN LET low == IF current_page >= half THEN current_page - half ELSE 0
             IN  [start |-> low, end |-> low + displayed_pages, underflow |-> FALSE]
        ELSE [start |-> number_of_pages - displayed_pages, end |-> number_of_pages,
              underflow |-> FALSE]

\* a call of get_pagination(number_of_pages, current_page, 5) returns
get_pagination_call(p) ==
    /\ call[p].op = "get_pagination" /\ call[p].pc = "called"
    /\ call' = [call EXCEPT ![p] =
                    [call[p] EXCEPT !.pc = "done",
                        !.range = get_pagination(call[p].number_of_pages,
                                                 call[p].page_number, DisplayedPages)]]
    /\ UNCHANGED <<users, items, reviews, next_id, now>>

\* the calls with 1 <= number_of_pages <= MaxPages and
\* 0 <= current_page < number_of_pages
PaginationCalls ==
    {[NoCall EXCEPT !.op = "get_pagination", !.pc = "called",
                    !.number_of_pages = n, !.page_number = c] :
        n \in 1..MaxPages, c \in 0..(MaxPages - 1)}

InitPagination ==
    /\ users = {}
    /\ items = {}
    /\ reviews = {}
    /\ next_id = [users |-> 1, items |-> 1]
    /\ now = 0
    /\ call \in [Procs -> {x \in PaginationCalls : x.page_number < x.number_of_pages}]
    /\ prev = Idle
    /\ session = NoSessions
    /\ files = {}
    /\ req = NoRequests

NextPagination == \E p \in Procs : get_pagination_call(p) /\ UNCHANGED <<prev, web>>

SpecPagination == InitPagination /\ [][NextPagination]_vars

\* C30: the range get_pagination(n, c, 5) returns for n >= 1 and 0 <= c < n
\* starts at 0 or above, ends at n or below, contains c, and has
\* min(n, 5) elements, and no unsigned subtraction went below zero.
C30_PaginationRange ==
    \A p \in Procs :
        (call[p].op = "get_pagination" /\ call[p].pc = "done") =>
            LET n == call[p].number_of_pages
                c == call[p].page_number
                r == call[p].range
            IN  /\ ~ r.underflow
                /\ 0 <= r.start /\ r.end <= n
                /\ r.start <= c /\ c < r.end
                /\ r.end - r.start = Min2(n, DisplayedPages)

C30_Witness ==
    /\ call["p1"].pc = "done" /\ call["p1"].number_of_pages = 7
    /\ call["p1"].page_number = 1 /\ call["p1"].range.start = 0
    /\ call["p2"].pc = "done" /\ call["p2"].number_of_pages = 3
    /\ call["p2"].page_number = 2 /\ call["p2"].range.end = 3

=============================================================================
